---- MODULE Spec2Model ----
(***************************************************************************)
(* Model of the Redis-like cache server of                                 *)
(* src/src/post/build-your-own-redis-like-cache-in-go.md:                  *)
(* store/cache.go (LRU map + container/list, TTL, cleaner),                *)
(* store/persistence.go (append-only file) and main.go (replay, handler).  *)
(*                                                                         *)
(* Strings are sequences of one-character strings, so that formatting      *)
(* (fmt.Sprintf) and parsing (strings.Fields, strings.Split) are computed. *)
(* Time is an integer clock; the zero time.Time is 0 and the clock starts  *)
(* at 1.  Every cache operation runs under c.mu, so each is one action.    *)
(***************************************************************************)
EXTENDS Naturals, Integers, Sequences, FiniteSets, TLC

VARIABLES
    items,      \* c.items: key -> [value, expiresAt, elem]
    lru,        \* c.lru, Front first
    maxSize,    \* c.maxSize
    persist,    \* c.persist: "nil" or "aof"
    aof,        \* the bytes of the append-only file
    now,        \* time.Now()
    phase,      \* where main is: "down", "opened", "replayed", "cleaning",
                \* "serving", or ended: "exited", "crashed"
    conns,      \* the connections: "idle", "open" or "closed"
    touch,      \* ghost: keys by most recent touch
    sets,       \* ghost: <<key, value>> of the Sets whose record was written
    last,       \* ghost: the last completed call and what it returned
    mu,         \* c.mu: the goroutine that holds it, or "free"
    pc          \* where each goroutine is in a call on the cache, and the
                \* arguments and local variables of the call

vars == <<items, lru, maxSize, persist, aof, now, phase, conns, touch, sets,
          last, mu, pc>>

----------------------------------------------------------------------------
(* Bounds of the model *)

MaxCap == 2
MaxTime == 3
MaxLog == 3
MaxFile == 2

\* time.Hour, in clock units
Hour == 1

Keys == {<<"a">>, <<"b">>, <<"c">>}
\* the key/value pairs written
Writes == {<< <<"a">>, <<"1">> >>, << <<"a">>, <<"2">> >>,
           << <<"b">>, <<"1">> >>, << <<"c">>, <<"1">> >>}
TTLs == {0, Hour}

\* the connections a client may open
ConnIds == {"c1", "c2"}
NoConns == [c \in ConnIds |-> "idle"]

EmptyMap == [k \in {} |-> 0]

\* the goroutines that call the cache: two connection handlers and the
\* cleaner
Handlers == {"h1", "h2"}
Cleaner == "cleaner"
Goroutines == Handlers \cup {Cleaner}

\* a goroutine that is in no call on the cache; in a call, at is the
\* statement it executes next, key and value are the arguments, expiresAt
\* and elem the local variables (elem: item.elem, elem, oldest or e), found
\* the result of a Get; op names the call and pre keeps, as a ghost, the map,
\* the list and the clock as they were when the call took c.mu
NoPre == [items |-> EmptyMap, lru |-> <<>>, now |-> 0]
AtRest == [at |-> "idle", op |-> "none", key |-> <<>>, value |-> <<>>,
           ttl |-> 0, expiresAt |-> 0, elem |-> 0, found |-> FALSE,
           pre |-> NoPre]
Idle == [g \in Goroutines |-> AtRest]

\* the Sets of the handlers that run concurrently
Stores ==
    {[key |-> <<"a">>, value |-> <<"1">>, ttl |-> 0],
     [key |-> <<"a">>, value |-> <<"2">>, ttl |-> Hour],
     [key |-> <<"b">>, value |-> <<"1">>, ttl |-> 0],
     [key |-> <<"b">>, value |-> <<"2">>, ttl |-> Hour]}

----------------------------------------------------------------------------
(* container/list, as used by cache.go: a list is the sequence of its       *)
(* elements from Front to Back; an element is [id, Value], id standing for  *)
(* the *list.Element pointer.                                               *)

ElemIds(l) == {l[i].id : i \in 1..Len(l)}

IndexOf(l, id) == CHOOSE i \in 1..Len(l) : l[i].id = id

RemoveAt(l, i) == SubSeq(l, 1, i - 1) \o SubSeq(l, i + 1, Len(l))

\* (variant: the element stays linked)
ListRemove_Kept(l, id) == l

\* list.Remove: a no-op unless the element belongs to the list
ListRemove(l, id) ==
    IF id \in ElemIds(l) THEN RemoveAt(l, IndexOf(l, id)) ELSE l

\* (variant: the element keeps its place)
MoveToFront_InPlace(l, id) == l

\* list.MoveToFront: a no-op unless the element belongs to the list
MoveToFront(l, id) ==
    IF id \in ElemIds(l)
    THEN <<l[IndexOf(l, id)]>> \o RemoveAt(l, IndexOf(l, id))
    ELSE l

\* (variant: the element is pushed at the back)
PushFront_Back(l, id, v) == l \o <<[id |-> id, Value |-> v]>>

\* list.PushFront
PushFront(l, id, v) == <<[id |-> id, Value |-> v]>> \o l

\* the pointer of a freshly allocated element: the least id not referenced
\* by the list or by an Item
NewElem(its, l) ==
    LET used == ElemIds(l) \cup {its[k].elem : k \in DOMAIN its}
    IN  CHOOSE i \in 1..(Cardinality(used) + 1) :
            i \notin used /\ \A j \in 1..(i - 1) : j \in used

\* (variant: the front element is taken for the oldest)
Back_Front(l) == l[1]

\* c.lru.Back() of a list that is not empty
Back(l) == l[Len(l)]

\* (variant: the map is cleared)
MapDelete_All(its, key) == [k \in {} |-> 0]

\* delete(c.items, key)
MapDelete(its, key) == [k \in DOMAIN its \ {key} |-> its[k]]

LruKeys(l) == {l[i].Value : i \in 1..Len(l)}
LruKeySeq(l) == [i \in 1..Len(l) |-> l[i].Value]

----------------------------------------------------------------------------
(* strings / fmt / bufio, on sequences of characters *)

SETc == <<"S", "E", "T">>
GETc == <<"G", "E", "T">>

\* unicode.IsSpace, on the characters of the model
IsSpace(ch) == ch \in {" ", "\t", "\n", "\r"}

\* strings.ToUpper, on the letters of the model
ToUpperCh(ch) ==
    CASE ch = "s" -> "S" [] ch = "e" -> "E" [] ch = "t" -> "T"
      [] ch = "g" -> "G" [] ch = "f" -> "F" [] ch = "o" -> "O"
      [] ch = "a" -> "A" [] ch = "b" -> "B" [] ch = "c" -> "C"
      [] ch = "x" -> "X" [] OTHER -> ch

ToUpper(s) == [i \in 1..Len(s) |-> ToUpperCh(s[i])]

\* strings.HasPrefix
HasPrefix(s, prefix) ==
    Len(s) >= Len(prefix) /\ SubSeq(s, 1, Len(prefix)) = prefix

RECURSIVE TrimLeft(_)
TrimLeft(s) ==
    IF s # <<>> /\ IsSpace(Head(s)) THEN TrimLeft(Tail(s)) ELSE s

RECURSIVE TrimRight(_)
TrimRight(s) ==
    IF s # <<>> /\ IsSpace(s[Len(s)])
    THEN TrimRight(SubSeq(s, 1, Len(s) - 1)) ELSE s

\* strings.TrimSpace
TrimSpace(s) == TrimRight(TrimLeft(s))

\* strings.Split(s, sep) for a one-character sep: cur is the token being read
RECURSIVE SplitFrom(_, _, _)
SplitFrom(s, sep, cur) ==
    IF s = <<>> THEN <<cur>>
    ELSE IF Head(s) = sep THEN <<cur>> \o SplitFrom(Tail(s), sep, <<>>)
    ELSE SplitFrom(Tail(s), sep, Append(cur, Head(s)))

Split(s, sep) == SplitFrom(s, sep, <<>>)

\* strings.Fields: the maximal runs of non-space characters
RECURSIVE FieldsFrom(_, _)
FieldsFrom(s, cur) ==
    IF s = <<>> THEN (IF cur = <<>> THEN <<>> ELSE <<cur>>)
    ELSE IF IsSpace(Head(s))
    THEN (IF cur = <<>> THEN <<>> ELSE <<cur>>) \o FieldsFrom(Tail(s), <<>>)
    ELSE FieldsFrom(Tail(s), Append(cur, Head(s)))

Fields(s) == FieldsFrom(s, <<>>)

\* (variant: value and key change places)
SprintfSET_ValueFirst(key, value) == SETc \o <<" ">> \o value \o <<" ">> \o key

\* fmt.Sprintf("SET %s %s", key, value)
SprintfSET(key, value) == SETc \o <<" ">> \o key \o <<" ">> \o value

\* bufio.Scanner with ScanLines over the bytes of a file: the lines without
\* their "\n" (and without a "\r" before it); a last line needs no "\n"
RECURSIVE ScanFrom(_, _)
ScanFrom(bytes, cur) ==
    IF bytes = <<>> THEN (IF cur = <<>> THEN <<>> ELSE <<cur>>)
    ELSE IF Head(bytes) = "\n"
    THEN <<IF cur # <<>> /\ cur[Len(cur)] = "\r"
           THEN SubSeq(cur, 1, Len(cur) - 1) ELSE cur>>
         \o ScanFrom(Tail(bytes), <<>>)
    ELSE ScanFrom(Tail(bytes), Append(cur, Head(bytes)))

ScanLines(bytes) == ScanFrom(bytes, <<>>)

----------------------------------------------------------------------------
(* store/cache.go *)

\* (variant: the zero time counts as an expiration)
IsZero_Never(t) == FALSE

\* item.expiresAt.IsZero()
IsZero(t) == t = 0

\* (variant: the entry is expired at the instant of its expiration)
After_OrEqual(t, u) == t >= u

\* (variant: one clock unit late)
After_Late(t, u) == t > u + 1

\* time.Now().After(item.expiresAt)
After(t, u) == t > u

\* (variant: evicts one entry too late)
OverCapacity_OffByOne(n, cap) == n > cap + 1

\* c.lru.Len() > c.maxSize
OverCapacity(n, cap) == n > cap

\* (variant: the TTL is counted from the zero time)
ExpiresAt_FromZero(ttl, t) == ttl

\* (variant: a ttl of zero expires at once)
ExpiresAt_Always(ttl, t) == t + ttl

\* the expiration Set derives from its ttl (lines 123-126)
ExpiresAt(ttl, t) == IF ttl # 0 THEN t + ttl ELSE 0

\* (variant: the eviction takes the back-most expired entry when there is
\* one)
SetMem_ExpiredFirst(its, l, cap, key, value, ttl, t) ==
    LET expiresAt == ExpiresAt(ttl, t)
        exists == key \in DOMAIN its
        elem == IF exists THEN its[key].elem ELSE NewElem(its, l)
        l1 == IF exists THEN MoveToFront(l, elem) ELSE PushFront(l, elem, key)
        its1 == [k \in DOMAIN its \cup {key} |->
                    IF k = key
                    THEN [value |-> value, expiresAt |-> expiresAt, elem |-> elem]
                    ELSE its[k]]
        evict == OverCapacity(Len(l1), cap) /\ Len(l1) > 0
        stale == {i \in 1..Len(l1) :
                     /\ ~IsZero(its1[l1[i].Value].expiresAt)
                     /\ After(t, its1[l1[i].Value].expiresAt)}
        oldest == IF stale = {} THEN Back(l1)
                  ELSE l1[CHOOSE i \in stale : \A j \in stale : j <= i]
    IN  IF evict
        THEN [items |-> MapDelete(its1, oldest.Value),
              lru |-> ListRemove(l1, oldest.id),
              evicted |-> {oldest.Value} \cap DOMAIN its1]
        ELSE [items |-> its1, lru |-> l1, evicted |-> {}]

\* Cache.Set, the part that touches the map and the list (lines 123-152)
SetMem(its, l, cap, key, value, ttl, t) ==
    LET expiresAt == ExpiresAt(ttl, t)
        exists == key \in DOMAIN its
        elem == IF exists THEN its[key].elem ELSE NewElem(its, l)
        l1 == IF exists THEN MoveToFront(l, elem) ELSE PushFront(l, elem, key)
        its1 == [k \in DOMAIN its \cup {key} |->
                    IF k = key
                    THEN [value |-> value, expiresAt |-> expiresAt, elem |-> elem]
                    ELSE its[k]]
        evict == OverCapacity(Len(l1), cap) /\ Len(l1) > 0
        oldest == Back(l1)
    IN  IF evict
        THEN [items |-> MapDelete(its1, oldest.Value),
              lru |-> ListRemove(l1, oldest.id),
              evicted |-> {oldest.Value} \cap DOMAIN its1]
        ELSE [items |-> its1, lru |-> l1, evicted |-> {}]

\* Cache.Get (lines 169-192)
GetMem(its, l, key, t) ==
    IF key \notin DOMAIN its
    THEN [items |-> its, lru |-> l, value |-> <<>>, found |-> FALSE]
    ELSE IF ~IsZero(its[key].expiresAt) /\ After(t, its[key].expiresAt)
    THEN [items |-> MapDelete(its, key), lru |-> ListRemove(l, its[key].elem),
          value |-> <<>>, found |-> FALSE]
    ELSE [items |-> its, lru |-> MoveToFront(l, its[key].elem),
          value |-> its[key].value, found |-> TRUE]

\* (variant: the loop does not skip the entries without expiration)
RECURSIVE CleanLoop_NoSkip(_, _, _, _)
CleanLoop_NoSkip(its, l, i, t) ==
    IF i = 0 THEN [items |-> its, lru |-> l, panic |-> FALSE]
    ELSE IF l[i].Value \notin DOMAIN its
    THEN [items |-> its, lru |-> l, panic |-> TRUE]
    ELSE IF After(t, its[l[i].Value].expiresAt)
    THEN [items |-> MapDelete(its, l[i].Value), lru |-> RemoveAt(l, i),
          panic |-> FALSE]
    ELSE CleanLoop_NoSkip(its, l, i - 1, t)

\* The loop of cleanExpiredItems (lines 219-233), e being the element at
\* position i.  list.Remove(e) clears e's links, so the e.Prev() that follows
\* a removal yields nil and the loop ends there.
RECURSIVE CleanLoop(_, _, _, _)
CleanLoop(its, l, i, t) ==
    IF i = 0 THEN [items |-> its, lru |-> l, panic |-> FALSE]
    ELSE IF l[i].Value \notin DOMAIN its
    THEN [items |-> its, lru |-> l, panic |-> TRUE]
    ELSE IF IsZero(its[l[i].Value].expiresAt) THEN CleanLoop(its, l, i - 1, t)
    ELSE IF After(t, its[l[i].Value].expiresAt)
    THEN [items |-> MapDelete(its, l[i].Value), lru |-> RemoveAt(l, i),
          panic |-> FALSE]
    ELSE CleanLoop(its, l, i - 1, t)

\* Cache.cleanExpiredItems (lines 214-243)
CleanMem(its, l, cap, t) ==
    LET r == CleanLoop(its, l, Len(l), t)
        l1 == r.lru
        its1 == r.items
    IN  IF ~r.panic /\ OverCapacity(Len(l1), cap) /\ Len(l1) > 0
        THEN [items |-> MapDelete(its1, Back(l1).Value),
              lru |-> ListRemove(l1, Back(l1).id), panic |-> FALSE]
        ELSE r

----------------------------------------------------------------------------
(* Ghost state: touch lists the keys in the order of their most recent      *)
(* touch (a Set of the key or a Get hit on it), most recent first.  It is   *)
(* kept from the calls and their results, not from the list.                *)

RECURSIVE Without(_, _)
Without(s, x) ==
    IF s = <<>> THEN <<>>
    ELSE IF Head(s) = x THEN Without(Tail(s), x)
    ELSE <<Head(s)>> \o Without(Tail(s), x)

Touch(tc, key) == <<key>> \o Without(tc, key)

\* the record of the last completed call
NoCall == [op |-> "none", by |-> "none", key |-> <<>>, value |-> <<>>,
           ttl |-> 0, replaying |-> FALSE, found |-> FALSE, ret |-> <<>>,
           appendErr |-> FALSE, logged |-> FALSE, resp |-> <<>>,
           present |-> FALSE, removed |-> {}, err |-> FALSE, calls |-> <<>>]

\* what a call did to the key set: was its key present, which keys it removed
Observe(call, its, its1) ==
    [call EXCEPT !.present = call.key \in DOMAIN its,
                 !.removed = DOMAIN its \ DOMAIN its1]

----------------------------------------------------------------------------
(* store/persistence.go *)

\* (variant: a command equal to the last record is not written again)
PersistAppend_Dedup(file, cmd, werr) ==
    LET rec == cmd \o <<"\n">>
        n == Len(file) - Len(rec)
    IN  IF werr \/ (n >= 0 /\ SubSeq(file, n + 1, Len(file)) = rec)
        THEN file ELSE file \o rec

\* Persistence.Append: p.file.WriteString(cmd + "\n"); a failing write is
\* taken to leave the file as it was
PersistAppend(file, cmd, werr) ==
    IF werr THEN file ELSE file \o cmd \o <<"\n">>

NumLines(file) == Cardinality({i \in 1..Len(file) : file[i] = "\n"})

\* (variant: a failed append undoes the Set)
AppendBlock_Rollback(mem, before, werr) == IF werr THEN before ELSE mem

\* the append block of Set (lines 154-161) leaves the map and the list as the
\* lines above it made them, whether or not Append returns an error
AppendBlock(mem, before, werr) == mem

\* (variant: the error is dropped)
AppendFailureLogged_Dropped(werr) == FALSE

\* log.Println("Failed to append to AOF file:", err) (lines 158-160)
AppendFailureLogged(werr) == werr

----------------------------------------------------------------------------
(* The cache calls; by names the caller *)

\* c.Set(key, value, ttl, replaying); werr: the write of Append fails
CacheSet(key, value, ttl, replaying, werr, by, resp) ==
    /\ phase = "serving"
    /\ LET called == persist # "nil" /\ ~replaying
           mem == SetMem(items, lru, maxSize, key, value, ttl, now)
           kept == AppendBlock(mem, [items |-> items, lru |-> lru], werr)
       IN  /\ werr => called
           /\ (called /\ ~werr) => NumLines(aof) < MaxLog
           /\ items' = kept.items
           /\ lru' = kept.lru
           /\ aof' = IF called
                     THEN PersistAppend(aof, SprintfSET(key, value), werr)
                     ELSE aof
           /\ sets' = IF called /\ ~werr
                      THEN Append(sets, <<key, value>>) ELSE sets
           /\ last' = Observe([NoCall EXCEPT
                                  !.op = "Set", !.by = by, !.key = key,
                                  !.value = value, !.ttl = ttl,
                                  !.replaying = replaying, !.appendErr = werr,
                                  !.logged = AppendFailureLogged(werr),
                                  !.resp = resp], items, kept.items)
    /\ touch' = Touch(touch, key)
    /\ UNCHANGED <<maxSize, persist, now, phase, mu, pc>>

RespOK == <<"O", "K", "\n">>
RespNil == <<"n", "i", "l", "\n">>
RespInvalid == <<"I", "n", "v", "a", "l", "i", "d", " ",
                 "c", "o", "m", "m", "a", "n", "d", "\n">>
\* (variant: the usage branch answers as the too-short branch)
RespUsage_AsInvalid == RespInvalid

RespUsage == <<"U", "s", "a", "g", "e", ":", " ", "S", "E", "T", " ",
               "k", "e", "y", " ", "v", "a", "l", "u", "e", "\n">>

\* (variant: the default branch answers as the too-short branch)
RespUnknown_AsInvalid == RespInvalid

RespUnknown == <<"U", "n", "k", "n", "o", "w", "n", " ",
                 "C", "o", "m", "m", "a", "n", "d", "\n">>

\* (variant: the value is written without its newline)
GetResponse_NoNewline(value, found) == IF ~found THEN RespNil ELSE value

\* the response to GET (lines 440-446)
GetResponse(value, found) == IF ~found THEN RespNil ELSE value \o <<"\n">>

\* (variant: Get records the read in the file)
GetLog_Recorded(file, key) == file \o GETc \o <<" ">> \o key \o <<"\n">>

\* Get has no c.persist.Append (lines 169-192): the file after a Get
GetLog(file, key) == file

\* c.Get(key); a connection handler writes the result back
CacheGet(key, by) ==
    /\ phase = "serving"
    /\ LET r == GetMem(items, lru, key, now)
       IN  /\ items' = r.items
           /\ lru' = r.lru
           /\ touch' = IF r.found THEN Touch(touch, key) ELSE touch
           /\ last' = Observe([NoCall EXCEPT
                                  !.op = "Get", !.by = by, !.key = key,
                                  !.found = r.found, !.ret = r.value,
                                  !.resp = IF by = "conn"
                                           THEN GetResponse(r.value, r.found)
                                           ELSE <<>>],
                              items, r.items)
    /\ aof' = GetLog(aof, key)
    /\ UNCHANGED <<maxSize, persist, now, phase, sets, mu, pc>>

----------------------------------------------------------------------------
(* The cache driven through its API *)

Init ==
    /\ items = EmptyMap
    /\ lru = <<>>
    /\ maxSize \in 1..MaxCap
    /\ persist = "nil"
    /\ aof = <<>>
    /\ now = 1
    /\ phase = "serving"
    /\ conns = NoConns
    /\ touch = <<>>
    /\ sets = <<>>
    /\ last = NoCall
    /\ mu = "free"
    /\ pc = Idle

Set(key, value, ttl, replaying, werr) ==
    /\ CacheSet(key, value, ttl, replaying, werr, "api", <<>>)
    /\ UNCHANGED conns

Get(key) ==
    /\ CacheGet(key, "api")
    /\ UNCHANGED conns

\* (variant: the cleaner is started before the replay)
CleanerRunning_BeforeReplay(ph) ==
    ph \in {"opened", "replayed", "cleaning", "serving"}

\* go cache.StartCleaningServer() has run (line 350, after the replay)
CleanerRunning(ph) == ph \in {"cleaning", "serving"}

\* one tick of StartCleaningServer: c.cleanExpiredItems()
cleanExpiredItems ==
    /\ CleanerRunning(phase)
    /\ LET r == CleanMem(items, lru, maxSize, now)
       IN  /\ items' = r.items
           /\ lru' = r.lru
           /\ phase' = IF r.panic THEN "crashed" ELSE phase
           /\ last' = Observe([NoCall EXCEPT !.op = "cleanExpiredItems",
                                             !.by = "reaper"], items, r.items)
    /\ UNCHANGED <<maxSize, persist, aof, now, conns, touch, sets, mu, pc>>

\* the wall clock advances
Tick ==
    /\ now < MaxTime
    /\ now' = now + 1
    /\ last' = NoCall
    /\ UNCHANGED <<items, lru, maxSize, persist, aof, phase, conns, touch, sets,
                   mu, pc>>

Next ==
    \/ \E w \in Writes, ttl \in TTLs : Set(w[1], w[2], ttl, FALSE, FALSE)
    \/ \E key \in Keys : Get(key)
    \/ cleanExpiredItems
    \/ Tick

Spec == Init /\ [][Next]_vars

----------------------------------------------------------------------------
(* cache.go statement by statement: every goroutine of Goroutines runs its  *)
(* call one statement at a time, and the statements of different goroutines *)
(* interleave in any order that c.mu allows.  An Item is named by the       *)
(* pointer of its list element.                                             *)

\* (variant: Lock does not wait)
MutexFree_Always(m) == TRUE

\* c.mu.Lock() returns when no goroutine holds c.mu
MutexFree(m) == m = "free"

\* (variant: the lock is released before the append block)
AtPersist_Released(m) == "free"

\* defer c.mu.Unlock() (line 121): c.mu is held until Set returns, the
\* append block included
AtPersist(m) == m

\* the keys whose Item a pointer names
KeysOf(its, elem) == {k \in DOMAIN its : its[k].elem = elem}

\* a field of the Item a pointer names; seen: the field as last read, which
\* is what an Item that left the map still holds
ReadValue(its, elem, seen) ==
    IF KeysOf(its, elem) = {} THEN seen
    ELSE its[CHOOSE k \in KeysOf(its, elem) : TRUE].value
ReadExpiresAt(its, elem, seen) ==
    IF KeysOf(its, elem) = {} THEN seen
    ELSE its[CHOOSE k \in KeysOf(its, elem) : TRUE].expiresAt

\* e.Prev(): nil (0) at the front and for an element that left the list
Prev(l, elem) ==
    IF elem \in ElemIds(l) /\ IndexOf(l, elem) > 1
    THEN l[IndexOf(l, elem) - 1].id ELSE 0

\* the map, the list and the clock as a call finds them
Pre == [items |-> items, lru |-> lru, now |-> now]

Step(g, at) == pc' = [pc EXCEPT ![g].at = at]

UnchangedByStep == <<maxSize, persist, now, phase, conns, touch, sets, last>>

\* c.mu.Lock() of Set, and expiresAt (lines 120-126)
SetLock(g, key, value, ttl) ==
    /\ phase = "serving"
    /\ pc[g].at = "idle"
    /\ MutexFree(mu)
    /\ persist # "nil" => NumLines(aof) < MaxLog
    /\ mu' = g
    /\ pc' = [pc EXCEPT ![g] = [AtRest EXCEPT
                  !.at = "Set:exists", !.op = "Set", !.key = key,
                  !.value = value, !.ttl = ttl,
                  !.expiresAt = ExpiresAt(ttl, now), !.pre = Pre]]
    /\ UNCHANGED <<items, lru, aof>>
    /\ UNCHANGED UnchangedByStep

\* item, exists := c.items[key] (line 129)
SetLookup(g) ==
    /\ pc[g].at = "Set:exists"
    /\ pc' = IF pc[g].key \in DOMAIN items
             THEN [pc EXCEPT ![g].at = "Set:value",
                             ![g].elem = items[pc[g].key].elem]
             ELSE [pc EXCEPT ![g].at = "Set:push"]
    /\ UNCHANGED <<items, lru, aof, mu>>
    /\ UNCHANGED UnchangedByStep

\* item.value = value (line 131)
SetValue(g) ==
    /\ pc[g].at = "Set:value"
    /\ items' = [k \in DOMAIN items |->
                    IF items[k].elem = pc[g].elem
                    THEN [items[k] EXCEPT !.value = pc[g].value]
                    ELSE items[k]]
    /\ Step(g, "Set:expiresAt")
    /\ UNCHANGED <<lru, aof, mu>>
    /\ UNCHANGED UnchangedByStep

\* item.expiresAt = expiresAt (line 132)
SetExpiresAt(g) ==
    /\ pc[g].at = "Set:expiresAt"
    /\ items' = [k \in DOMAIN items |->
                    IF items[k].elem = pc[g].elem
                    THEN [items[k] EXCEPT !.expiresAt = pc[g].expiresAt]
                    ELSE items[k]]
    /\ Step(g, "Set:move")
    /\ UNCHANGED <<lru, aof, mu>>
    /\ UNCHANGED UnchangedByStep

\* c.lru.MoveToFront(item.elem) (line 134)
SetMoveToFront(g) ==
    /\ pc[g].at = "Set:move"
    /\ lru' = MoveToFront(lru, pc[g].elem)
    /\ Step(g, "Set:len")
    /\ UNCHANGED <<items, aof, mu>>
    /\ UNCHANGED UnchangedByStep

\* elem := c.lru.PushFront(key) (line 138)
SetPushFront(g) ==
    /\ pc[g].at = "Set:push"
    /\ LET elem == NewElem(items, lru)
       IN  /\ lru' = PushFront(lru, elem, pc[g].key)
           /\ pc' = [pc EXCEPT ![g].at = "Set:insert", ![g].elem = elem]
    /\ UNCHANGED <<items, aof, mu>>
    /\ UNCHANGED UnchangedByStep

\* c.items[key] = &Item{...} (lines 139-143)
SetInsert(g) ==
    /\ pc[g].at = "Set:insert"
    /\ items' = [k \in DOMAIN items \cup {pc[g].key} |->
                    IF k = pc[g].key
                    THEN [value |-> pc[g].value,
                          expiresAt |-> pc[g].expiresAt,
                          elem |-> pc[g].elem]
                    ELSE items[k]]
    /\ Step(g, "Set:len")
    /\ UNCHANGED <<lru, aof, mu>>
    /\ UNCHANGED UnchangedByStep

\* if c.lru.Len() > c.maxSize { oldest := c.lru.Back() ... (lines 146-148)
SetLen(g) ==
    /\ pc[g].at = "Set:len"
    /\ IF OverCapacity(Len(lru), maxSize) /\ Len(lru) > 0
       THEN /\ pc' = [pc EXCEPT ![g].at = "Set:delete",
                                ![g].elem = Back(lru).id]
            /\ mu' = mu
       ELSE /\ Step(g, "Set:persist")
            /\ mu' = AtPersist(mu)
    /\ UNCHANGED <<items, lru, aof>>
    /\ UNCHANGED UnchangedByStep

\* delete(c.items, oldest.Value.(string)) (line 149)
SetDelete(g) ==
    /\ pc[g].at = "Set:delete"
    /\ items' = IF pc[g].elem \in ElemIds(lru)
                THEN MapDelete(items, lru[IndexOf(lru, pc[g].elem)].Value)
                ELSE items
    /\ Step(g, "Set:remove")
    /\ UNCHANGED <<lru, aof, mu>>
    /\ UNCHANGED UnchangedByStep

\* c.lru.Remove(oldest) (line 150)
SetRemove(g) ==
    /\ pc[g].at = "Set:remove"
    /\ lru' = ListRemove(lru, pc[g].elem)
    /\ Step(g, "Set:persist")
    /\ mu' = AtPersist(mu)
    /\ UNCHANGED <<items, aof>>
    /\ UNCHANGED UnchangedByStep

\* the append block of a Set that is not replaying (lines 155-161); werr:
\* the write of Append fails
SetPersist(g, werr) ==
    /\ pc[g].at = "Set:persist"
    /\ werr => persist # "nil"
    /\ aof' = IF persist # "nil"
              THEN PersistAppend(aof, SprintfSET(pc[g].key, pc[g].value), werr)
              ELSE aof
    /\ Step(g, "unlock")
    /\ UNCHANGED <<items, lru, mu>>
    /\ UNCHANGED UnchangedByStep

\* c.mu.Lock() of Get (line 170)
GetLock(g, key) ==
    /\ phase = "serving"
    /\ pc[g].at = "idle"
    /\ MutexFree(mu)
    /\ mu' = g
    /\ pc' = [pc EXCEPT ![g] = [AtRest EXCEPT
                  !.at = "Get:exists", !.op = "Get", !.key = key,
                  !.pre = Pre]]
    /\ UNCHANGED <<items, lru, aof>>
    /\ UNCHANGED UnchangedByStep

\* item, exists := c.items[key]; if !exists { return "", false }
\* (lines 174-177)
GetLookup(g) ==
    /\ pc[g].at = "Get:exists"
    /\ pc' = IF pc[g].key \in DOMAIN items
             THEN [pc EXCEPT ![g].at = "Get:expired",
                             ![g].elem = items[pc[g].key].elem,
                             ![g].value = items[pc[g].key].value,
                             ![g].expiresAt = items[pc[g].key].expiresAt]
             ELSE [pc EXCEPT ![g].at = "unlock"]
    /\ UNCHANGED <<items, lru, aof, mu>>
    /\ UNCHANGED UnchangedByStep

\* if !item.expiresAt.IsZero() && time.Now().After(item.expiresAt)
\* (line 180)
GetExpired(g) ==
    /\ pc[g].at = "Get:expired"
    /\ LET expiresAt == ReadExpiresAt(items, pc[g].elem, pc[g].expiresAt)
       IN  pc' = [pc EXCEPT
                     ![g].expiresAt = expiresAt,
                     ![g].at = IF ~IsZero(expiresAt) /\ After(now, expiresAt)
                               THEN "Get:remove" ELSE "Get:move"]
    /\ UNCHANGED <<items, lru, aof, mu>>
    /\ UNCHANGED UnchangedByStep

\* c.lru.Remove(item.elem) (line 182)
GetRemove(g) ==
    /\ pc[g].at = "Get:remove"
    /\ lru' = ListRemove(lru, pc[g].elem)
    /\ Step(g, "Get:delete")
    /\ UNCHANGED <<items, aof, mu>>
    /\ UNCHANGED UnchangedByStep

\* delete(c.items, key); return "", false (lines 183-184)
GetDelete(g) ==
    /\ pc[g].at = "Get:delete"
    /\ items' = MapDelete(items, pc[g].key)
    /\ Step(g, "unlock")
    /\ UNCHANGED <<lru, aof, mu>>
    /\ UNCHANGED UnchangedByStep

\* c.lru.MoveToFront(item.elem) (line 188)
GetMoveToFront(g) ==
    /\ pc[g].at = "Get:move"
    /\ lru' = MoveToFront(lru, pc[g].elem)
    /\ Step(g, "Get:return")
    /\ UNCHANGED <<items, aof, mu>>
    /\ UNCHANGED UnchangedByStep

\* return item.value, true (line 191)
GetReturn(g) ==
    /\ pc[g].at = "Get:return"
    /\ pc' = [pc EXCEPT ![g].at = "unlock", ![g].found = TRUE,
                        ![g].value = ReadValue(items, pc[g].elem,
                                               pc[g].value)]
    /\ UNCHANGED <<items, lru, aof, mu>>
    /\ UNCHANGED UnchangedByStep

\* c.mu.Lock() of cleanExpiredItems on a tick of the cleaner, and
\* e := c.lru.Back() (lines 215, 219)
CleanLock ==
    /\ CleanerRunning(phase)
    /\ pc[Cleaner].at = "idle"
    /\ MutexFree(mu)
    /\ mu' = Cleaner
    /\ pc' = [pc EXCEPT ![Cleaner] = [AtRest EXCEPT
                  !.at = "clean:loop", !.op = "cleanExpiredItems",
                  !.elem = IF lru = <<>> THEN 0 ELSE Back(lru).id,
                  !.pre = Pre]]
    /\ UNCHANGED <<items, lru, aof>>
    /\ UNCHANGED UnchangedByStep

\* one pass of the loop up to the removal (lines 219-227); an element whose
\* key has no Item gives a nil item, and item.expiresAt panics
CleanVisit ==
    /\ pc[Cleaner].at = "clean:loop"
    /\ pc[Cleaner].elem # 0
    /\ LET e == pc[Cleaner].elem
           linked == e \in ElemIds(lru)
           key == IF linked THEN lru[IndexOf(lru, e)].Value
                  ELSE pc[Cleaner].key
           nilItem == key \notin DOMAIN items
           expiresAt == IF nilItem THEN 0 ELSE items[key].expiresAt
       IN  /\ phase' = IF nilItem THEN "crashed" ELSE phase
           /\ pc' = IF nilItem THEN [pc EXCEPT ![Cleaner].at = "unlock"]
                    ELSE IF ~IsZero(expiresAt) /\ After(now, expiresAt)
                    THEN [pc EXCEPT ![Cleaner].at = "clean:remove",
                                    ![Cleaner].key = key]
                    ELSE [pc EXCEPT ![Cleaner].elem = Prev(lru, e),
                                    ![Cleaner].key = key]
    /\ UNCHANGED <<items, lru, aof, mu>>
    /\ UNCHANGED <<maxSize, persist, now, conns, touch, sets, last>>

\* c.lru.Remove(e) (line 228)
CleanRemove ==
    /\ pc[Cleaner].at = "clean:remove"
    /\ lru' = ListRemove(lru, pc[Cleaner].elem)
    /\ Step(Cleaner, "clean:delete")
    /\ UNCHANGED <<items, aof, mu>>
    /\ UNCHANGED UnchangedByStep

\* delete(c.items, e.Value.(string)), and e = e.Prev() of the element that
\* was removed (lines 229, 219)
CleanDelete ==
    /\ pc[Cleaner].at = "clean:delete"
    /\ items' = MapDelete(items, pc[Cleaner].key)
    /\ pc' = [pc EXCEPT ![Cleaner].at = "clean:loop",
                        ![Cleaner].elem = Prev(lru, pc[Cleaner].elem)]
    /\ UNCHANGED <<lru, aof, mu>>
    /\ UNCHANGED UnchangedByStep

\* e == nil ends the loop; the capacity block (lines 235-242)
CleanCapacity ==
    /\ pc[Cleaner].at = "clean:loop"
    /\ pc[Cleaner].elem = 0
    /\ LET evict == OverCapacity(Len(lru), maxSize) /\ Len(lru) > 0
       IN  /\ items' = IF evict THEN MapDelete(items, Back(lru).Value)
                       ELSE items
           /\ lru' = IF evict THEN ListRemove(lru, Back(lru).id) ELSE lru
    /\ Step(Cleaner, "unlock")
    /\ UNCHANGED <<aof, mu>>
    /\ UNCHANGED UnchangedByStep

\* (variant: Unlock leaves the mutex with its holder)
Released_Held(m) == m

\* c.mu after c.mu.Unlock()
Released(m) == "free"

\* the deferred c.mu.Unlock() as the call returns (lines 121, 171, 216)
Unlock(g) ==
    /\ pc[g].at = "unlock"
    /\ mu' = Released(mu)
    /\ pc' = [pc EXCEPT ![g] = AtRest]
    /\ UNCHANGED <<items, lru, aof>>
    /\ UNCHANGED UnchangedByStep

\* the deferred c.mu.Unlock() as s.cache.Set or s.cache.Get returns to
\* HandleConnection, which has the response to write (lines 434, 439)
Return(g) ==
    /\ pc[g].at = "unlock"
    /\ mu' = Released(mu)
    /\ pc' = [pc EXCEPT ![g] = [AtRest EXCEPT
                  !.at = "write", !.op = pc[g].op, !.found = pc[g].found,
                  !.value = IF pc[g].op = "Get" /\ pc[g].found
                            THEN pc[g].value ELSE <<>>]]
    /\ UNCHANGED <<items, lru, aof>>
    /\ UNCHANGED UnchangedByStep

\* the response HandleConnection writes after the call (lines 435, 439-446)
Response(c) ==
    IF c.op = "Set" THEN RespOK ELSE GetResponse(c.value, c.found)

\* conn.Write of the response (lines 435, 439-446)
Write(g) ==
    /\ pc[g].at = "write"
    /\ Response(pc[g]) # <<>>
    /\ pc' = [pc EXCEPT ![g] = AtRest]
    /\ UNCHANGED <<items, lru, aof, mu>>
    /\ UNCHANGED UnchangedByStep

\* the cache under two handlers and the cleaner, without a file
NextLock ==
    \/ \E g \in Handlers, s \in Stores : SetLock(g, s.key, s.value, s.ttl)
    \/ \E g \in Handlers :
          \/ SetLookup(g) \/ SetValue(g) \/ SetExpiresAt(g)
          \/ SetMoveToFront(g) \/ SetPushFront(g) \/ SetInsert(g)
          \/ SetLen(g) \/ SetDelete(g) \/ SetRemove(g)
          \/ SetPersist(g, FALSE)
    \/ \E g \in Handlers, s \in Stores : GetLock(g, s.key)
    \/ \E g \in Handlers :
          \/ GetLookup(g) \/ GetExpired(g) \/ GetRemove(g) \/ GetDelete(g)
          \/ GetMoveToFront(g) \/ GetReturn(g)
    \/ CleanLock \/ CleanVisit \/ CleanRemove \/ CleanDelete
    \/ CleanCapacity
    \/ \E g \in Goroutines : Unlock(g)
    \/ Tick

SpecLock == Init /\ [][NextLock]_vars

\* the Sets of two handlers that serve SET on a started server (line 434)
LogStores ==
    {[key |-> <<"a">>, value |-> <<"1">>, ttl |-> Hour],
     [key |-> <<"a">>, value |-> <<"2">>, ttl |-> Hour],
     [key |-> <<"b">>, value |-> <<"1">>, ttl |-> Hour]}

\* the SET and GET commands that two handlers serve at once: a value for
\* each key, stored for an hour (line 434)
Requests ==
    {[key |-> <<"a">>, value |-> <<"1">>, ttl |-> Hour],
     [key |-> <<"b">>, value |-> <<"1">>, ttl |-> Hour]}

\* the statements of goroutine g once it has c.mu, up to its return and,
\* for a handler, the response
Proceed(g) ==
    \/ SetLookup(g) \/ SetValue(g) \/ SetExpiresAt(g)
    \/ SetMoveToFront(g) \/ SetPushFront(g) \/ SetInsert(g)
    \/ SetLen(g) \/ SetDelete(g) \/ SetRemove(g)
    \/ SetPersist(g, FALSE)
    \/ GetLookup(g) \/ GetExpired(g) \/ GetRemove(g) \/ GetDelete(g)
    \/ GetMoveToFront(g) \/ GetReturn(g)
    \/ Return(g) \/ Write(g)

Sweep ==
    \/ CleanVisit \/ CleanRemove \/ CleanDelete \/ CleanCapacity
    \/ Unlock(Cleaner)

\* two connection handlers that serve SET and GET, and the cleaner
NextHandlers ==
    \/ \E g \in Handlers, s \in Requests :
          SetLock(g, s.key, s.value, s.ttl)
    \/ \E g \in Handlers, s \in Requests : GetLock(g, s.key)
    \/ \E g \in Handlers : Proceed(g)
    \/ CleanLock
    \/ Sweep
    \/ Tick

\* a goroutine that can run is run: the Go scheduler starves no goroutine
\* that is not blocked
SpecHandlers ==
    /\ Init /\ [][NextHandlers]_vars
    /\ \A g \in Handlers : WF_vars(Proceed(g))
    /\ WF_vars(Sweep)

----------------------------------------------------------------------------
(* main.go: the server *)

\* (variant: only the first line is read)
ReplayCalls_FirstLine(lines) ==
    IF lines # <<>> /\ HasPrefix(Head(lines), SETc) /\ Len(Fields(Head(lines))) = 3
    THEN << <<Fields(Head(lines))[2], Fields(Head(lines))[3]>> >>
    ELSE <<>>

\* the loop of replayAOF (lines 371-382): the Set calls it makes, in order
RECURSIVE ReplayCalls(_)
ReplayCalls(lines) ==
    IF lines = <<>> THEN <<>>
    ELSE LET line == Head(lines)
             parts == Fields(line)
         IN  IF HasPrefix(line, SETc) /\ Len(parts) = 3
             THEN << <<parts[2], parts[3]>> >> \o ReplayCalls(Tail(lines))
             ELSE ReplayCalls(Tail(lines))

\* (variant: the replay calls Set as the handler does)
ReplayOptions_Live == [ttl |-> Hour, replaying |-> FALSE]

\* the ttl and the replaying flag of
\* cache.Set(parts[1], parts[2], time.Hour, true) (line 379)
ReplayOptions == [ttl |-> Hour, replaying |-> TRUE]

\* the file after the Sets of the replay on a cache with persistence: a Set
\* that is not replaying appends its record (lines 155-157)
RECURSIVE ReplayLog(_, _, _)
ReplayLog(file, calls, replaying) ==
    IF calls = <<>> \/ replaying THEN file
    ELSE ReplayLog(PersistAppend(file, SprintfSET(Head(calls)[1],
                                                  Head(calls)[2]), FALSE),
                   Tail(calls), replaying)

\* cache.Set(parts[1], parts[2], time.Hour, true) for each call (line 379)
RECURSIVE ApplyReplay(_, _, _, _)
ApplyReplay(calls, mem, cap, t) ==
    IF calls = <<>> THEN mem
    ELSE LET r == SetMem(mem.items, mem.lru, cap,
                         Head(calls)[1], Head(calls)[2], ReplayOptions.ttl, t)
         IN  ApplyReplay(Tail(calls), [items |-> r.items, lru |-> r.lru], cap, t)

RECURSIVE TouchAll(_, _)
TouchAll(tc, calls) ==
    IF calls = <<>> THEN tc
    ELSE TouchAll(Touch(tc, Head(calls)[1]), Tail(calls))

\* a server not yet started, on a new file; maxSize is the configured capacity
InitServer ==
    /\ items = EmptyMap
    /\ lru = <<>>
    /\ maxSize \in 1..MaxCap
    /\ persist = "aof"
    /\ aof = <<>>
    /\ now = 1
    /\ phase = "down"
    /\ conns = NoConns
    /\ touch = <<>>
    /\ sets = <<>>
    /\ last = NoCall
    /\ mu = "free"
    /\ pc = Idle

\* NewServer (lines 334-355): NewAOF, NewCache, replayAOF, then the cleaner
\* and the listener start
NewServer ==
    /\ phase = "down"
    /\ LET calls == ReplayCalls(ScanLines(aof))
           mem == ApplyReplay(calls, [items |-> EmptyMap, lru |-> <<>>],
                              maxSize, now)
       IN  /\ items' = mem.items
           /\ lru' = mem.lru
           /\ touch' = TouchAll(<<>>, calls)
           /\ aof' = ReplayLog(aof, calls, ReplayOptions.replaying)
    /\ phase' = "serving"
    /\ last' = [NoCall EXCEPT !.op = "replayAOF", !.by = "boot"]
    /\ UNCHANGED <<maxSize, persist, now, conns, sets, mu, pc>>

\* a response that needs no cache call
Respond(resp) ==
    /\ last' = [NoCall EXCEPT !.by = "conn", !.resp = resp]
    /\ UNCHANGED <<items, lru, maxSize, persist, aof, now, phase, touch, sets,
                   mu, pc>>

\* (variant: one token is enough)
TooShort_NoToken(tokens) == Len(tokens) < 1

\* len(tokens) < 2 (line 416)
TooShort(tokens) == Len(tokens) < 2

\* (variant: the verb is compared as sent)
Verb_AsSent(tokens) == tokens[1]

\* cmd := strings.ToUpper(tokens[0]) (line 422)
Verb(tokens) == ToUpper(tokens[1])

\* (variant: the entry never expires)
SetArgs_NoTTL(tokens) ==
    [key |-> tokens[2], value |-> tokens[3], ttl |-> 0, replaying |-> FALSE]

\* the arguments of s.cache.Set(tokens[1], tokens[2], time.Hour, false)
SetArgs(tokens) ==
    [key |-> tokens[2], value |-> tokens[3], ttl |-> Hour, replaying |-> FALSE]

\* the body of the loop of HandleConnection (lines 410-451) on the message
\* that ReadString returned
Round(message, werr) ==
    LET tokens == Split(TrimSpace(message), " ")
        cmd == Verb(tokens)
        args == SetArgs(tokens)
    IN  IF TooShort(tokens) THEN ~werr /\ Respond(RespInvalid)
        ELSE IF cmd = SETc
        THEN IF Len(tokens) < 3 THEN ~werr /\ Respond(RespUsage)
             ELSE CacheSet(args.key, args.value, args.ttl, args.replaying,
                           werr, "conn", RespOK)
        ELSE IF cmd = GETc
        THEN ~werr /\ CacheGet(tokens[2], "conn")
        ELSE ~werr /\ Respond(RespUnknown)

\* one round of the loop of HandleConnection (lines 402-452), on a
\* connection the model does not follow
HandleConnection(message, werr) ==
    /\ phase = "serving"
    /\ Round(message, werr)
    /\ UNCHANGED conns

\* the process ends; the cache is lost, the file stays
Stop ==
    /\ phase = "serving"
    /\ phase' = "down"
    /\ items' = EmptyMap
    /\ lru' = <<>>
    /\ touch' = <<>>
    /\ last' = NoCall
    /\ conns' = NoConns
    /\ UNCHANGED <<maxSize, persist, aof, now, sets, mu, pc>>

Line(s) == s \o <<"\n">>

\* the messages a client sends
Messages ==
    {Line(<<"S", "E", "T", " ", "a", " ", "1">>),
     Line(<<"s", "e", "t", " ", "a", " ", "2">>),
     Line(<<"S", "E", "T", " ", "b", " ", "1">>),
     Line(<<"G", "E", "T", " ", "a">>),
     Line(<<"g", "e", "t", " ", "b">>),
     Line(<<"S", "E", "T", " ", "a">>),
     Line(<<"F", "O", "O">>),
     Line(<<"F", "O", "O", " ", "x">>)}

NextServer ==
    \/ NewServer
    \/ \E message \in Messages, werr \in BOOLEAN :
           HandleConnection(message, werr)
    \/ cleanExpiredItems
    \/ Tick
    \/ Stop

SpecServer == InitServer /\ [][NextServer]_vars

\* the server at one instant of the clock, with Sets in replay mode besides
\* those of the connections
NextLog ==
    \/ NewServer
    \/ \E message \in Messages, werr \in BOOLEAN :
           HandleConnection(message, werr)
    \/ \E key \in {<<"a">>, <<"b">>}, ttl \in TTLs :
           Set(key, <<"1">>, ttl, TRUE, FALSE)
    \/ cleanExpiredItems
    \/ Stop

SpecLog == InitServer /\ [][NextLog]_vars

\* the commands of the clients of a server that is stopped and restarted
ReplayMessages ==
    {Line(<<"S", "E", "T", " ", "a", " ", "1">>),
     Line(<<"S", "E", "T", " ", "a", " ", "2">>),
     Line(<<"S", "E", "T", " ", "b", " ", "1">>),
     Line(<<"S", "E", "T", " ", "c", " ", "2">>),
     Line(<<"G", "E", "T", " ", "a">>),
     Line(<<"G", "E", "T", " ", "c">>)}

\* the server at one instant of the clock, started, served and stopped
NextReplay ==
    \/ NewServer
    \/ \E message \in ReplayMessages : HandleConnection(message, FALSE)
    \/ Stop

SpecReplay == InitServer /\ [][NextReplay]_vars

\* command lines with two spaces in a row and with a tab inside a token
SpacedMessages ==
    {Line(<<"S", "E", "T", " ", " ", "a">>),
     Line(<<"S", "E", "T", " ", "a", "\t", "b", " ", "1">>),
     Line(<<"S", "E", "T", " ", "a", " ", "1">>),
     Line(<<"S", "E", "T", " ", "b", " ", "2">>),
     Line(<<"G", "E", "T", " ", "a">>)}

\* the server, started, served such lines and stopped, at one instant of the
\* clock
NextSpaced ==
    \/ NewServer
    \/ \E message \in SpacedMessages : HandleConnection(message, FALSE)
    \/ Stop

SpecSpaced == InitServer /\ [][NextSpaced]_vars

----------------------------------------------------------------------------
(* The connections: Start accepts a connection and runs HandleConnection    *)
(* on it in a goroutine of its own (lines 470-480); the handler reads a     *)
(* message, serves it and reads the next one, until the read fails.  Set    *)
(* and Get run under c.mu and the reply is written by the goroutine that    *)
(* made the call, so one round of the loop is one action.                   *)

\* listener.Accept() returned a connection, go s.HandleConnection(conn)
Accept(c) ==
    /\ phase = "serving"
    /\ conns[c] = "idle"
    /\ conns' = [conns EXCEPT ![c] = "open"]
    /\ last' = [NoCall EXCEPT !.op = "Accept", !.by = "conn"]
    /\ UNCHANGED <<items, lru, maxSize, persist, aof, now, phase, touch, sets,
                   mu, pc>>

\* (variant: a round that answers with a diagnostic ends the handler)
AfterRound_CloseOnDiagnostic(state, resp) ==
    IF resp \in {RespInvalid, RespUsage, RespUnknown} THEN "closed" ELSE state

\* every branch of the loop body ends in continue or falls through to the
\* next iteration (lines 416-451): the connection stays as it is
AfterRound(state, resp) == state

\* one round of the handler of connection c
Serve(c, message, werr) ==
    /\ conns[c] = "open"
    /\ phase = "serving"
    /\ Round(message, werr)
    /\ conns' = [conns EXCEPT ![c] = AfterRound(conns[c], last'.resp)]

\* (variant: the error ends the process, as log.Fatal would)
OnReadError_Fatal(ph) == "exited"

\* log.Println(err); return (lines 405-408): main goes on as it was
OnReadError(ph) == ph

\* reader.ReadString fails (the peer closed, or the transport broke): the
\* handler logs the error and returns, and the deferred conn.Close() runs
ReadError(c) ==
    /\ conns[c] = "open"
    /\ conns' = [conns EXCEPT ![c] = "closed"]
    /\ phase' = OnReadError(phase)
    /\ last' = [NoCall EXCEPT !.op = "ReadError", !.by = "conn", !.err = TRUE]
    /\ UNCHANGED <<items, lru, maxSize, persist, aof, now, touch, sets,
                   mu, pc>>

\* the server after NewServer on an empty file and net.Listen
InitWire ==
    /\ items = EmptyMap
    /\ lru = <<>>
    /\ maxSize \in 1..MaxCap
    /\ persist = "aof"
    /\ aof = <<>>
    /\ now = 1
    /\ phase = "serving"
    /\ conns = NoConns
    /\ touch = <<>>
    /\ sets = <<>>
    /\ last = NoCall
    /\ mu = "free"
    /\ pc = Idle

TAB == "\t"

\* what the clients of the wire protocol send
WireMessages ==
    {Line(<<"S", "E", "T", " ", "a", " ", "1">>),
     Line(<<"s", "e", "t", " ", "a", " ", "n", "i", "l">>),
     Line(<<"S", "E", "T", " ", "A", " ", "2">>),
     Line(<<"G", "E", "T", " ", "a">>),
     Line(<<"g", "e", "t", " ", "A">>),
     Line(<<"G", "E", "T", TAB, "a">>),
     Line(<<"S", "E", "T", " ", "a">>),
     Line(<<"S", "E", "T">>),
     Line(<<"F", "O", "O">>),
     Line(<<"F", "O", "O", " ", "x">>),
     Line(<<>>)}

NextWire ==
    \/ \E c \in ConnIds : Accept(c)
    \/ \E c \in ConnIds, message \in WireMessages : Serve(c, message, FALSE)
    \/ \E c \in ConnIds : ReadError(c)
    \/ cleanExpiredItems

SpecWire == InitWire /\ [][NextWire]_vars


\* a started server whose two handlers Set statement by statement, at one
\* instant of the clock
NextLockLog ==
    \/ \E g \in Handlers, s \in LogStores :
          SetLock(g, s.key, s.value, s.ttl)
    \/ \E g \in Handlers :
          \/ SetLookup(g) \/ SetValue(g) \/ SetExpiresAt(g)
          \/ SetMoveToFront(g) \/ SetPushFront(g) \/ SetInsert(g)
          \/ SetLen(g) \/ SetDelete(g) \/ SetRemove(g)
    \/ \E g \in Handlers, werr \in BOOLEAN : SetPersist(g, werr)
    \/ \E g \in Handlers : Unlock(g)

SpecLockLog == InitWire /\ [][NextLockLog]_vars

----------------------------------------------------------------------------
(* main, step by step: NewServer (NewAOF, NewCache, replayAOF, the cleaner) *)
(* and Start (net.Listen, the accept loop), on a file left by earlier runs  *)

\* lines found in the file
BootLines ==
    {<<"S", "E", "T", " ", "a", " ", "1">>,
     <<"S", "E", "T", "X", " ", "a", " ", "2">>,
     <<" ", "S", "E", "T", " ", "b", " ", "1">>,
     <<"S", "E", "T", TAB, "b", TAB, "2">>,
     <<"S", "E", "T", " ", "a">>,
     <<"S", "E", "T", " ", "a", " ", "1", " ", "2">>,
     <<"G", "E", "T", " ", "a">>}

\* the bytes of a file of the given lines
RECURSIVE FileOf(_)
FileOf(lines) ==
    IF lines = <<>> THEN <<>> ELSE Line(Head(lines)) \o FileOf(Tail(lines))

Files == {FileOf(lines) : lines \in UNION {[1..n -> BootLines] : n \in 0..MaxFile}}

InitBoot ==
    /\ items = EmptyMap
    /\ lru = <<>>
    /\ maxSize \in 1..MaxCap
    /\ persist = "nil"
    /\ aof \in Files
    /\ now = 1
    /\ phase = "down"
    /\ conns = NoConns
    /\ touch = <<>>
    /\ sets = <<>>
    /\ last = NoCall
    /\ mu = "free"
    /\ pc = Idle

\* store.NewAOF and store.NewCache (lines 336-342); oerr: os.OpenFile fails,
\* NewServer returns the error and main ends in log.Fatalf
NewAOF(oerr) ==
    /\ phase = "down"
    /\ phase' = IF oerr THEN "exited" ELSE "opened"
    /\ persist' = IF oerr THEN persist ELSE "aof"
    /\ last' = [NoCall EXCEPT !.op = "NewAOF", !.by = "boot", !.err = oerr]
    /\ UNCHANGED <<items, lru, maxSize, aof, now, conns, touch, sets, mu, pc>>

\* (variant: the error of the replay is dropped)
AfterReplay_Ignored(err) == "replayed"

\* if err := replayAOF(...); err != nil { return nil, err } (lines 345-347)
\* and log.Fatalf in main (lines 494-496)
AfterReplay(err) == IF err THEN "exited" ELSE "replayed"

\* replayAOF (lines 361-390); rerr: os.Open fails (n = 0) or the scanner
\* stops with an error after n lines
replayAOF(rerr, n) ==
    /\ phase = "opened"
    /\ LET lines == ScanLines(aof)
           read == IF rerr THEN SubSeq(lines, 1, n) ELSE lines
           calls == ReplayCalls(read)
           mem == ApplyReplay(calls, [items |-> items, lru |-> lru],
                              maxSize, now)
       IN  /\ n \in 0..Len(lines)
           /\ ~rerr => n = Len(lines)
           /\ items' = mem.items
           /\ lru' = mem.lru
           /\ touch' = TouchAll(touch, calls)
           /\ last' = [NoCall EXCEPT !.op = "replayAOF", !.by = "boot",
                                     !.err = rerr, !.calls = calls]
           /\ aof' = ReplayLog(aof, calls, ReplayOptions.replaying)
    /\ phase' = AfterReplay(rerr)
    /\ UNCHANGED <<maxSize, persist, now, conns, sets, mu, pc>>

\* go cache.StartCleaningServer() (line 350), and NewServer returns
StartCleaningServer ==
    /\ phase = "replayed"
    /\ phase' = "cleaning"
    /\ last' = [NoCall EXCEPT !.op = "StartCleaningServer", !.by = "boot"]
    /\ UNCHANGED <<items, lru, maxSize, persist, aof, now, conns, touch, sets,
                   mu, pc>>

\* net.Listen in Start (lines 461-464); lerr: it fails and Start panics
Listen(lerr) ==
    /\ phase = "cleaning"
    /\ phase' = IF lerr THEN "crashed" ELSE "serving"
    /\ last' = [NoCall EXCEPT !.op = "Listen", !.by = "boot", !.err = lerr]
    /\ UNCHANGED <<items, lru, maxSize, persist, aof, now, conns, touch, sets,
                   mu, pc>>

\* what the clients send to the started server
BootMessages ==
    {Line(<<"G", "E", "T", " ", "a">>),
     Line(<<"G", "E", "T", " ", "b">>)}

NextBoot ==
    \/ \E oerr \in BOOLEAN : NewAOF(oerr)
    \/ \E rerr \in BOOLEAN, n \in 0..MaxFile : replayAOF(rerr, n)
    \/ StartCleaningServer
    \/ \E lerr \in BOOLEAN : Listen(lerr)
    \/ Accept("c1")
    \/ \E message \in BootMessages : Serve("c1", message, FALSE)
    \/ ReadError("c1")
    \/ cleanExpiredItems
    \/ Tick

SpecBoot == InitBoot /\ [][NextBoot]_vars


----------------------------------------------------------------------------
(* Properties of the cache *)

CacheOps == {"Set", "Get", "cleanExpiredItems"}

Size(its) == Cardinality(DOMAIN its)

\* C1: capacity invariant - after every completed Set, Get or
\* cleanExpiredItems on a cache with maxSize >= 1, the map and the list hold
\* at most maxSize entries.
C1_Capacity ==
    (last.op \in CacheOps /\ maxSize >= 1) =>
        (Size(items) <= maxSize /\ Len(lru) <= maxSize)

\* a Set has just filled the cache by evicting another key
C1_Witness ==
    /\ last.op = "Set"
    /\ last.removed # {}
    /\ Size(items) = maxSize

\* C2: map/list bijection - after every completed call the keys of the map
\* are the keys of the list, each key occurs once in the list, and each
\* item's elem is the list element that holds the item's key.
C2_Bijection ==
    last.op \in CacheOps =>
        /\ DOMAIN items = LruKeys(lru)
        /\ Cardinality(LruKeys(lru)) = Len(lru)
        /\ Cardinality(ElemIds(lru)) = Len(lru)
        /\ \A k \in DOMAIN items :
              /\ items[k].elem \in ElemIds(lru)
              /\ lru[IndexOf(lru, items[k].elem)].Value = k

\* a Get has lazily removed one of two entries
C2_Witness ==
    /\ last.op = "Get"
    /\ last.removed = {last.key}
    /\ Len(lru) = 1

\* position of a key in the touch order (1 = touched most recently)
TouchPos(tc, key) == CHOOSE i \in 1..Len(tc) : tc[i] = key

\* the held key whose most recent touch is the oldest
LeastRecent(tc, held) ==
    CHOOSE k \in held : \A o \in held : TouchPos(tc, o) <= TouchPos(tc, k)

\* C3: LRU eviction order - a Set that inserts a new key into a cache holding
\* maxSize entries removes the entry touched least recently (by a Set of its
\* key or a Get hit) and keeps every other entry with its value.
C3_LRUOrder ==
    [][(/\ last'.op = "Set"
        /\ last'.key \notin DOMAIN items
        /\ maxSize >= 1
        /\ Size(items) = maxSize)
       => LET victim == LeastRecent(touch, DOMAIN items)
          IN  /\ DOMAIN items' = (DOMAIN items \ {victim}) \cup {last'.key}
              /\ \A o \in DOMAIN items \ {victim} :
                     items'[o].value = items[o].value]_vars

\* maxSize = 2: a was inserted before b, a was touched again, and the Set of
\* c has evicted b and kept a
C3_Witness ==
    /\ last.op = "Set"
    /\ last.key = <<"c">>
    /\ last.removed = {<<"b">>}
    /\ maxSize = 2
    /\ LruKeySeq(lru) = << <<"c">>, <<"a">> >>
    /\ items[<<"a">>].elem = 1
    /\ items[<<"c">>].elem = 3

\* C4: lazy expiry - Get of a present key whose non-zero expiresAt is before
\* the current time returns ("", false) and removes the key from the map and
\* from the list, so the size drops by one.
C4_LazyExpiry ==
    [][(/\ last'.op = "Get"
        /\ last'.key \in DOMAIN items
        /\ items[last'.key].expiresAt # 0
        /\ now > items[last'.key].expiresAt)
       => /\ last'.found = FALSE
          /\ last'.ret = <<>>
          /\ last'.key \notin DOMAIN items'
          /\ last'.key \notin LruKeys(lru')
          /\ Size(items') = Size(items) - 1
          /\ Len(lru') = Len(lru) - 1]_vars

\* a Get has removed its own key while the cache was full
C4_Witness ==
    /\ last.op = "Get"
    /\ last.found = FALSE
    /\ last.removed = {last.key}
    /\ Size(items) = maxSize - 1

\* C5: cleanExpiredItems completeness - after one call at time t no entry
\* remains whose expiresAt is non-zero and earlier than t.
C5_RemoveExpiredComplete ==
    last.op = "cleanExpiredItems" =>
        \A k \in DOMAIN items :
            ~(items[k].expiresAt # 0 /\ items[k].expiresAt < now)

\* C7: overwrite in place - Set on a present key keeps the key set and the
\* size, replaces the value and the expiration, moves the key to the front
\* and keeps the order of the others; Get of the key then returns the value.
C7_Overwrite ==
    [][(last'.op = "Set" /\ last'.key \in DOMAIN items)
       => LET k == last'.key
          IN  /\ DOMAIN items' = DOMAIN items
              /\ Len(lru') = Len(lru)
              /\ items'[k].value = last'.value
              /\ items'[k].expiresAt =
                     (IF last'.ttl = 0 THEN 0 ELSE now + last'.ttl)
              /\ \A o \in DOMAIN items \ {k} : items'[o] = items[o]
              /\ LruKeySeq(lru') = Touch(LruKeySeq(lru), k)
              /\ GetMem(items', lru', k, now').found
              /\ GetMem(items', lru', k, now').value = last'.value]_vars

\* a Set has overwritten the back-most key of a full cache of two
C7_Witness ==
    /\ last.op = "Set"
    /\ last.present
    /\ last.removed = {}
    /\ maxSize = 2
    /\ Len(lru) = 2
    /\ lru[1].id = 1
    /\ lru[1].Value = last.key
    /\ items[last.key].value = <<"2">>

----------------------------------------------------------------------------
(* Properties of the log and the server *)

\* the keys with a written record, and the records of one key
LoggedKeys(w) == {w[i][1] : i \in 1..Len(w)}
RecordsOf(w, key) == {i \in 1..Len(w) : w[i][1] = key}
LastRecord(w, key) ==
    CHOOSE i \in RecordsOf(w, key) : \A j \in RecordsOf(w, key) : j <= i

\* the other keys written after the last record of key
LaterKeys(w, key) ==
    {w[j][1] : j \in (LastRecord(w, key) + 1)..Len(w)} \ {key}

\* a token as `SET <key> <value>` takes it: not empty, no white space
IsToken(s) == s # <<>> /\ \A i \in 1..Len(s) : ~IsSpace(s[i])
TokensOnly(w) == \A i \in 1..Len(w) : IsToken(w[i][1]) /\ IsToken(w[i][2])

\* C6 (as stated): after a replay into a fresh cache, Get of any key with more
\* than one record in the log finds the value of the key's last record.
C6_ReplayLastWriter ==
    last.op = "replayAOF" =>
        \A k \in LoggedKeys(sets) :
            Cardinality(RecordsOf(sets, k)) > 1 =>
                /\ GetMem(items, lru, k, now).found
                /\ GetMem(items, lru, k, now).value = sets[LastRecord(sets, k)][2]

\* C6 (amended): when every record's key and value are non-empty tokens
\* without white space, then after a replay Get of a key with more than one
\* record finds the value of its last record if fewer than maxSize other
\* keys were written after that record, and finds nothing otherwise.
C6_ReplayLastWriterHeld ==
    (last.op = "replayAOF" /\ TokensOnly(sets)) =>
        \A k \in LoggedKeys(sets) :
            Cardinality(RecordsOf(sets, k)) > 1 =>
                IF Cardinality(LaterKeys(sets, k)) < maxSize
                THEN /\ GetMem(items, lru, k, now).found
                     /\ GetMem(items, lru, k, now).value
                            = sets[LastRecord(sets, k)][2]
                ELSE ~GetMem(items, lru, k, now).found

\* a replay of SET a 1, SET b 1, SET a 2 has left a = 2 and b
C6_Witness ==
    /\ last.op = "replayAOF"
    /\ sets = << <<(<<"a">>), (<<"1">>)>>, <<(<<"b">>), (<<"1">>)>>,
                 <<(<<"a">>), (<<"2">>)>> >>
    /\ DOMAIN items = {<<"a">>, <<"b">>}
    /\ items[<<"a">>].value = <<"2">>

\* the line `SET <key> <value>` and its newline
RecordBytes(key, value) ==
    <<"S", "E", "T", " ">> \o key \o <<" ">> \o value \o <<"\n">>

\* C8 (as stated): every Set with isReplay=false on a cache with persistence
\* appends exactly one record `SET <key> <value>`; the Sets of a replay
\* append nothing.
C8_OneRecordPerLiveSet ==
    [][/\ (last'.op = "Set" /\ persist = "aof" /\ ~last'.replaying)
            => aof' = aof \o RecordBytes(last'.key, last'.value)
       /\ (last'.op = "Set" /\ last'.replaying) => aof' = aof
       /\ last'.op = "replayAOF" => aof' = aof]_vars

\* C8 (amended): a Set with isReplay=false on a cache with persistence whose
\* write succeeds appends exactly one record `SET <key> <value>`; one whose
\* write fails adds no record; the Sets of a replay append nothing.
C8_OneRecordPerWrittenSet ==
    [][/\ (last'.op = "Set" /\ persist = "aof" /\ ~last'.replaying)
            => IF last'.appendErr
               THEN NumLines(aof') = NumLines(aof)
               ELSE aof' = aof \o RecordBytes(last'.key, last'.value)
       /\ (last'.op = "Set" /\ last'.replaying) => aof' = aof
       /\ last'.op = "replayAOF" => aof' = aof]_vars

\* a SET command has written the second record of the log
C8_Witness ==
    /\ last.op = "Set"
    /\ last.by = "conn"
    /\ ~last.appendErr
    /\ NumLines(aof) = 2
    /\ ScanLines(aof)[2] = <<"S", "E", "T", " ">> \o last.key \o <<" ">> \o last.value

\* C9 (as stated): when Append fails, the command handler that called Set
\* gets an outcome that differs from the one of a successful append.
C9_AppendErrorReported ==
    (last.op = "Set" /\ last.by = "conn" /\ last.appendErr) =>
        (last.ret # <<>> \/ last.resp # RespOK)

\* C9 (amended): Set returns nothing; a failed Append is logged by Set
\* itself, and the handler answers OK whether or not the append failed.
C9_AppendErrorOnlyLogged ==
    (last.op = "Set" /\ last.by = "conn") =>
        /\ last.ret = <<>>
        /\ last.resp = RespOK
        /\ last.logged <=> last.appendErr

\* a SET command whose append failed has been answered
C9_Witness ==
    /\ last.op = "Set"
    /\ last.by = "conn"
    /\ last.appendErr
    /\ last.logged
    /\ last.resp = RespOK

Min(a, b) == IF a < b THEN a ELSE b

\* the key order a Set of key leaves: key first, then the others as they
\* were, cut to the capacity
OrderAfterSet(order, key, cap) ==
    SubSeq(Touch(order, key), 1, Min(cap, Len(Touch(order, key))))

\* C10: a Set with isReplay=false leaves the same entries, values, expirations
\* and recency order whether or not its append fails - the new or overwritten
\* entry at the front, the eviction done - and the server goes on serving.
C10_NoRollback ==
    [][(last'.op = "Set" /\ persist = "aof" /\ ~last'.replaying /\ maxSize >= 1)
       => LET k == last'.key
              order == OrderAfterSet(LruKeySeq(lru), k, maxSize)
          IN  /\ LruKeySeq(lru') = order
              /\ DOMAIN items' = {order[i] : i \in 1..Len(order)}
              /\ items'[k].value = last'.value
              /\ items'[k].expiresAt =
                     (IF last'.ttl = 0 THEN 0 ELSE now + last'.ttl)
              /\ \A o \in DOMAIN items' \ {k} : items'[o] = items[o]
              /\ phase' = "serving"]_vars

\* a SET whose append failed has evicted another key and kept its own
C10_Witness ==
    /\ last.op = "Set"
    /\ last.appendErr
    /\ last.removed # {}
    /\ last.key \in DOMAIN items
    /\ lru[1].Value = last.key
    /\ phase = "serving"

----------------------------------------------------------------------------
(* Properties of the wire protocol *)

\* the replies, as a client reads them
OKReply == <<"O", "K", "\n">>
NilReply == <<"n", "i", "l", "\n">>
InvalidReply == <<"I", "n", "v", "a", "l", "i", "d", " ",
                  "c", "o", "m", "m", "a", "n", "d", "\n">>
UsageReply == <<"U", "s", "a", "g", "e", ":", " ", "S", "E", "T", " ",
                "k", "e", "y", " ", "v", "a", "l", "u", "e", "\n">>
UnknownReply == <<"U", "n", "k", "n", "o", "w", "n", " ",
                  "C", "o", "m", "m", "a", "n", "d", "\n">>

\* the step is a round of some handler on message m (Serve(c, m, FALSE) for
\* some connection c)
Served(m) ==
    /\ \E c \in ConnIds : conns[c] = "open"
    /\ phase = "serving"
    /\ Round(m, FALSE)
    /\ \E c \in ConnIds :
          /\ conns[c] = "open"
          /\ conns' = [conns EXCEPT ![c] = AfterRound(conns[c], last'.resp)]

\* the pieces the handler sees: the trimmed line cut at every single space
PiecesOf == [m \in WireMessages |-> Split(TrimSpace(m), " ")]
Pieces(m) == PiecesOf[m]

\* the whitespace-separated tokens of the line
TokensOf == [m \in WireMessages |-> Fields(m)]

\* the line holds a space character between its first and last visible ones
HasSpace(m) == \E i \in 1..Len(TrimSpace(m)) : TrimSpace(m)[i] = " "
SpacedLines == {m \in WireMessages : HasSpace(m)}

IsVerb(token, verb) == ToUpper(token) = verb

\* the cache, the recency order and the log stay as they are
StateKept == UNCHANGED <<items, lru, aof>>

\* C11 as stated: every line whose first whitespace-separated token is
\* neither SET nor GET (in any case), the single token FOO included, is
\* answered "Unknown Command\n".
C11_UnknownVerb ==
    [][\A m \in WireMessages :
          (/\ TokensOf[m] # <<>>
           /\ ~IsVerb(TokensOf[m][1], SETc)
           /\ ~IsVerb(TokensOf[m][1], GETc)
           /\ Served(m))
          => last'.resp = UnknownReply]_vars

\* C11, amended: every line of two or more space-separated pieces whose
\* first piece is neither SET nor GET (in any case) is answered
\* "Unknown Command\n" and changes nothing; a line of one piece, such as
\* FOO, is answered "Invalid command\n".
C11_UnknownVerbWithArgument ==
    [][\A m \in WireMessages :
          Served(m) =>
             /\ (/\ Len(Pieces(m)) >= 2
                 /\ ~IsVerb(Pieces(m)[1], SETc)
                 /\ ~IsVerb(Pieces(m)[1], GETc))
                => (last'.resp = UnknownReply /\ StateKept)
             /\ (Len(Pieces(m)) = 1 /\ ~IsVerb(Pieces(m)[1], SETc)
                                    /\ ~IsVerb(Pieces(m)[1], GETc))
                => last'.resp = InvalidReply]_vars

\* an unknown verb was answered while the cache held an entry
C11_Witness ==
    /\ last.resp = UnknownReply
    /\ last.by = "conn"
    /\ items # EmptyMap

C13_SetUsage ==
    [][\A m \in WireMessages :
          (/\ TokensOf[m] # <<>>
           /\ IsVerb(TokensOf[m][1], SETc)
           /\ Len(TokensOf[m]) < 3
           /\ Served(m))
          => /\ last'.resp = UsageReply
             /\ last'.op # "Set"
             /\ StateKept]_vars

\* C13, amended: a SET line of exactly two space-separated pieces (the verb
\* and one more) is answered "Usage: SET key value\n", does not call Set and
\* leaves the cache, the recency order and the log as they are; SET alone is
\* answered "Invalid command\n".
C13_SetUsageTwoPieces ==
    [][\A m \in WireMessages :
          (/\ Len(Pieces(m)) = 2
           /\ IsVerb(Pieces(m)[1], SETc)
           /\ Served(m))
          => /\ last'.resp = UsageReply
             /\ last'.op # "Set"
             /\ StateKept]_vars

\* a SET without a value was answered while the cache held an entry
C13_Witness ==
    /\ last.resp = UsageReply
    /\ items # EmptyMap

\* the lines that are a SET with a key and a value, as the handler cuts them
SetLines ==
    {m \in WireMessages : Len(Pieces(m)) >= 3 /\ IsVerb(Pieces(m)[1], SETc)}

\* the lines that are a GET with a key, as the handler cuts them
GetLines ==
    {m \in WireMessages : Len(Pieces(m)) >= 2 /\ IsVerb(Pieces(m)[1], GETc)}

\* the entry of key k is held and has not expired at time t
Live(its, k, t) ==
    k \in DOMAIN its /\ (IsZero(its[k].expiresAt) \/ ~After(t, its[k].expiresAt))

\* C14: a SET with a key and a value is one call Set(key, value, 1 hour,
\* false), answered "OK\n" in the step that holds the entry and, the write
\* succeeding, the log record; from then on a GET of the key on any connection is answered with
\* the value the cache holds, and that value changes only by a Set of the
\* key and goes only by an eviction or an expiry.
C14_SetThenGet ==
    [][/\ \A m \in SetLines :
             Served(m) =>
                LET key == Pieces(m)[2]
                    value == Pieces(m)[3]
                IN  /\ last'.op = "Set"
                    /\ last'.key = key /\ last'.value = value
                    /\ last'.ttl = Hour /\ last'.replaying = FALSE
                    /\ last'.resp = OKReply
                    /\ key \in DOMAIN items'
                    /\ items'[key].value = value
                    /\ items'[key].expiresAt = now + Hour
                    /\ NumLines(aof') = NumLines(aof) + 1
                    /\ Len(sets') = Len(sets) + 1
       /\ \A m \in GetLines :
             (Served(m) /\ Live(items, Pieces(m)[2], now)) =>
                last'.resp = items[Pieces(m)[2]].value \o <<"\n">>
       /\ \A k \in DOMAIN items :
             IF k \in DOMAIN items'
             THEN items'[k].value # items[k].value
                     => (last'.op = "Set" /\ last'.key = k)
             ELSE \/ last'.op = "Set" /\ last'.key # k /\ last'.removed = {k}
                  \/ ~Live(items, k, now)]_vars

\* a GET is answered with a value that overwrote another, with one
\* connection closed and the other open
C14_Witness ==
    /\ last.op = "Get" /\ last.found
    /\ last.resp = <<"1", "\n">>
    /\ \E i \in 1..Len(sets) : sets[i] = << <<"a">>, <<"n", "i", "l">> >>
    /\ conns["c1"] = "closed" /\ conns["c2"] = "open"

\* C15 as stated: GET writes "<value>\n" exactly when Get returned
\* found = true with that value, and "nil\n" exactly when it returned
\* found = false.
C15_GetReply ==
    [][\A m \in GetLines :
          Served(m) =>
             /\ last'.op = "Get"
             /\ last'.found <=> last'.resp = last'.ret \o <<"\n">>
             /\ ~last'.found <=> last'.resp = NilReply]_vars

\* C15, amended: GET writes "<value>\n" when Get returned found = true with
\* that value and "nil\n" when it returned found = false; "nil\n" is also
\* the reply to a found entry whose value is the text nil, so the reply is
\* "nil\n" exactly when found = false or the value is nil.
C15_GetReplyNilValue ==
    [][\A m \in GetLines :
          Served(m) =>
             /\ last'.op = "Get"
             /\ last'.key = Pieces(m)[2]
             /\ last'.found <=> last'.resp = last'.ret \o <<"\n">>
             /\ ~last'.found => last'.resp = NilReply
             /\ last'.resp = NilReply
                   <=> (~last'.found \/ last'.ret = <<"n", "i", "l">>)]_vars

\* a GET found the value nil
C15_Witness ==
    /\ last.op = "Get" /\ last.by = "conn"
    /\ last.found
    /\ last.ret = <<"n", "i", "l">>

\* the line m with its verb in upper case, the rest as sent
UpperVerb ==
    [m \in WireMessages |->
        LET n == Len(Pieces(m)[1])
            t == TrimSpace(m)
        IN  ToUpper(SubSeq(t, 1, n)) \o SubSeq(t, n + 1, Len(t)) \o <<"\n">>]

\* the lines whose verb is not in upper case
LowerLines == {m \in WireMessages : UpperVerb[m] # m}

\* C16: a line is served as the same line with its verb in upper case; the
\* key and the value of a SET reach the cache as sent, the key of a GET is
\* looked up as sent, and a Set of one key leaves an entry whose key differs
\* from it only by case in place, with its value, while there is room.
C16_VerbCaseOnly ==
    [][/\ \A m \in LowerLines : Round(m, FALSE) <=> Round(UpperVerb[m], FALSE)
       /\ \A m \in SetLines :
            Served(m) =>
                LET key == Pieces(m)[2]
                IN  /\ last'.key = key
                    /\ key \in DOMAIN items'
                    /\ items'[key].value = Pieces(m)[3]
                    /\ \A o \in DOMAIN items \ {key} :
                          /\ o \in DOMAIN items' =>
                                items'[o].value = items[o].value
                          /\ Size(items) < maxSize => o \in DOMAIN items'
       /\ \A m \in GetLines :
            Served(m) =>
                LET key == Pieces(m)[2]
                IN  /\ last'.key = key
                    /\ last'.found <=> Live(items, key, now)
                    /\ last'.found => last'.ret = items[key].value]_vars

\* a lower-case get found the entry of A while the entry of a holds another
\* value
C16_Witness ==
    /\ last.op = "Get" /\ last.key = <<"A">> /\ last.found
    /\ last.ret = <<"2">>
    /\ <<"a">> \in DOMAIN items
    /\ items[<<"a">>].value = <<"n", "i", "l">>

\* the replies to malformed, too-short and unknown commands
Diagnostics == {InvalidReply, UsageReply, UnknownReply}

\* C17: a connection leaves the open state only by a failed read; every
\* round writes a reply and leaves every connection as it is, so the handler
\* that wrote a diagnostic reads the next command on its connection.
C17_ConnectionLifetime ==
    [][/\ \A c \in ConnIds :
             (conns[c] = "open" /\ conns'[c] # "open") =>
                (last'.op = "ReadError" /\ conns'[c] = "closed")
       /\ (last'.by = "conn" /\ last'.op \notin {"Accept", "ReadError"})
             => /\ last'.resp # <<>>
                /\ conns' = conns
                /\ \E c \in ConnIds : conns'[c] = "open"
                /\ phase' = "serving"]_vars

\* a diagnostic was written on the only open connection, which stays open
C17_Witness ==
    /\ last.resp \in Diagnostics
    /\ conns["c1"] = "open"
    /\ conns["c2"] = "idle"

----------------------------------------------------------------------------
(* Properties of the startup *)

\* a line of exactly three whitespace-separated tokens, the first one SET
Recognised(line) == Len(Fields(line)) = 3 /\ Fields(line)[1] = SETc

\* the <<key, value>> of the recognised lines, in order
RECURSIVE RecognisedCalls(_)
RecognisedCalls(lines) ==
    IF lines = <<>> THEN <<>>
    ELSE (IF Recognised(Head(lines))
          THEN << <<Fields(Head(lines))[2], Fields(Head(lines))[3]>> >>
          ELSE <<>>) \o RecognisedCalls(Tail(lines))

\* C18: a replay that reads the whole file applies exactly the lines of
\* three whitespace-separated tokens whose first token is SET, in order, and
\* skips every other line (one whose first token only starts with SET, one
\* of two or four tokens).
C18_ReplayRecognition ==
    (last.op = "replayAOF" /\ ~last.err) =>
        last.calls = RecognisedCalls(ScanLines(aof))

\* the steps of main, in order, and the ways it ends
StartupOrder ==
    {<<"down", "opened">>, <<"opened", "replayed">>,
     <<"replayed", "cleaning">>, <<"cleaning", "serving">>,
     <<"down", "exited">>, <<"opened", "exited">>,
     <<"cleaning", "crashed">>, <<"serving", "crashed">>}

\* the replay has run to its end
ReplayDone(ph) == ph \in {"replayed", "cleaning", "serving"}

\* C19: main goes through open log, replay, start of the cleaner, bind and
\* accept in this order; a handler accepts, serves or closes a connection
\* only once the listener is bound, and the cleaner sweeps only once it was
\* started, both after the replay has completed.
C19_StartupOrder ==
    [][/\ phase' # phase => <<phase, phase'>> \in StartupOrder
       /\ (phase' # phase /\ phase' = "opened") => last'.op = "NewAOF"
       /\ (phase' # phase /\ phase' = "replayed") => last'.op = "replayAOF"
       /\ (phase' # phase /\ phase' = "cleaning")
             => last'.op = "StartCleaningServer"
       /\ (phase' # phase /\ phase' = "serving") => last'.op = "Listen"
       /\ last'.by = "conn" => (phase = "serving" /\ ReplayDone(phase))
       /\ last'.op = "cleanExpiredItems"
             => (phase \in {"cleaning", "serving"} /\ ReplayDone(phase))
       /\ conns' # conns => phase = "serving"]_vars

\* a client's GET found an entry of the replay after a sweep could have run
C19_Witness ==
    /\ phase = "serving"
    /\ last.op = "Get" /\ last.found
    /\ conns["c1"] = "open"

\* C20: a replay that fails makes NewServer return the error and main exit:
\* the cleaner is not started, the listener is not bound, no connection is
\* accepted or served, and nothing of the program runs any more.
C20_ReplayFailureFatal ==
    [][/\ (phase = "opened" /\ last'.op = "replayAOF" /\ last'.err)
          => phase' = "exited"
       /\ phase' = "exited" => conns' = NoConns
       /\ phase = "exited"
          => /\ phase' = "exited"
             /\ last'.op = "none"
             /\ UNCHANGED <<items, lru, aof, persist, conns>>]_vars

\* the replay failed after it had applied a line
C20_Witness ==
    /\ phase = "exited"
    /\ last.op = "replayAOF" /\ last.err
    /\ items # EmptyMap

----------------------------------------------------------------------------
(* Properties of Get, the log and the cleaner *)

\* C24: a Get, by the API or by the wire command GET, leaves the bytes of
\* the log as they are, whether it hits, misses or removes an expired entry.
C24_GetKeepsLog ==
    [][last'.op = "Get" => aof' = aof]_vars

\* a GET has removed an expired entry while the log held a record
C24_Witness ==
    /\ last.op = "Get" /\ last.by = "conn"
    /\ last.removed = {last.key}
    /\ aof # <<>>

\* a is the beginning of b
IsPrefix(a, b) == Len(a) <= Len(b) /\ SubSeq(b, 1, Len(a)) = a

\* the file ends with the record
EndsWith(file, rec) ==
    Len(rec) <= Len(file)
        /\ SubSeq(file, Len(file) - Len(rec) + 1, Len(file)) = rec

\* C26: every step leaves the earlier bytes of the log as the beginning of
\* the later ones; a replay, a replayed Set, a sweep of the cleaner and a
\* restart write nothing; and a Set whose write succeeds adds its record at
\* the end even when the log already ends with the same record.
C26_AppendOnly ==
    [][/\ IsPrefix(aof, aof')
       /\ last'.op \in {"replayAOF", "cleanExpiredItems", "none"} => aof' = aof
       /\ (last'.op = "Set" /\ last'.replaying) => aof' = aof
       /\ (last'.op = "Set" /\ ~last'.replaying /\ ~last'.appendErr)
            => LET rec == RecordBytes(last'.key, last'.value)
               IN  /\ aof' = aof \o rec
                   /\ NumLines(aof') = NumLines(aof) + 1
                   /\ EndsWith(aof, rec) => EndsWith(aof', rec \o rec)]_vars

\* the same SET was served twice in a row and the log ends with its two
\* records
C26_Witness ==
    /\ last.op = "Set" /\ ~last.replaying /\ ~last.appendErr
    /\ EndsWith(aof, RecordBytes(last.key, last.value)
                       \o RecordBytes(last.key, last.value))

\* C27: a second cleanExpiredItems right after the first, at the same time,
\* finds nothing to remove and leaves the map and the list as they are.
C27_CleanIdempotent ==
    last.op = "cleanExpiredItems" =>
        /\ CleanMem(items, lru, maxSize, now).items = items
        /\ CleanMem(items, lru, maxSize, now).lru = lru

\* the entry of key k has an expiration that time t has passed
Expired(its, k, t) == its[k].expiresAt # 0 /\ its[k].expiresAt < t

\* C29: an entry of the map goes only by a Get of its key that finds it
\* expired, by a sweep of the cleaner that finds it expired, or as the
\* back-most entry when a Set inserts a new key into a full cache; a Set of
\* the entry's own key keeps it, and an entry without expiration goes only
\* by that eviction.
C29_EntryStateMachine ==
    [][/\ \A k \in DOMAIN items \ DOMAIN items' :
            \/ /\ last'.op = "Get" /\ last'.key = k
               /\ Expired(items, k, now)
            \/ /\ last'.op = "cleanExpiredItems"
               /\ Expired(items, k, now)
            \/ /\ last'.op = "Set" /\ last'.key # k
               /\ last'.key \notin DOMAIN items
               /\ Size(items) >= maxSize
               /\ lru[Len(lru)].Value = k
       /\ last'.op = "Set" => last'.key \in DOMAIN items'
       /\ (last'.op = "Set" /\ last'.key \in DOMAIN items)
            => DOMAIN items' = DOMAIN items]_vars

\* late in the run a Set has evicted an entry from a cache whose entries
\* have no expiration
C29_Witness ==
    /\ last.op = "Set"
    /\ last.removed # {}
    /\ \A k \in DOMAIN items : items[k].expiresAt = 0
    /\ now > 2

\* C30: a Set of a new key into a cache that holds exactly maxSize entries
\* removes one entry, the back-most of the list, and a Set of a new key into
\* a cache that holds fewer removes none.
C30_OneEviction ==
    [][(last'.op = "Set" /\ last'.key \notin DOMAIN items) =>
          IF Size(items) = maxSize
          THEN /\ DOMAIN items \ DOMAIN items' = {lru[Len(lru)].Value}
               /\ Size(items') = maxSize
               /\ LruKeySeq(lru')
                     = <<last'.key>> \o SubSeq(LruKeySeq(lru), 1, Len(lru) - 1)
          ELSE /\ Size(items) < maxSize
               /\ DOMAIN items' = DOMAIN items \cup {last'.key}
               /\ LruKeySeq(lru') = <<last'.key>> \o LruKeySeq(lru)]_vars

\* a Set of a new key into a full cache of two has evicted the back-most
C30_Witness ==
    /\ last.op = "Set"
    /\ ~last.present
    /\ Cardinality(last.removed) = 1
    /\ maxSize = 2 /\ Size(items) = 2

\* C23: a failed read on one connection closes that connection and nothing
\* else: the other connections stay as they are, the server keeps serving
\* and accepting, the cleaner keeps running, and the cache and the log are
\* as before.
C23_FailureIsolation ==
    [][last'.op = "ReadError" =>
          /\ \E c \in ConnIds :
                /\ conns[c] = "open"
                /\ conns' = [conns EXCEPT ![c] = "closed"]
          /\ phase' = "serving"
          /\ CleanerRunning(phase')
          /\ UNCHANGED <<items, lru, maxSize, persist, aof, touch>>]_vars

\* one connection has failed while the other is open and the cache holds an
\* entry
C23_Witness ==
    /\ last.op = "ReadError"
    /\ conns["c1"] = "closed" /\ conns["c2"] = "open"
    /\ items # EmptyMap

\* the keys of a cache with their values
Held(its) == [k \in DOMAIN its |-> its[k].value]

\* the cache a restart would build from a log, with the same maxSize
RebuiltFrom(file, cap, t) ==
    ApplyReplay(ReplayCalls(ScanLines(file)),
                [items |-> EmptyMap, lru |-> <<>>], cap, t)

Rebuilt == RebuiltFrom(aof, maxSize, now)

\* C25: at any moment of a server whose entries have not expired, after any
\* sequence of SET and GET commands, a restart on the log would build a cache
\* of the same keys with the same values.
C25_ReplayReconstructs ==
    phase = "serving" => Held(Rebuilt.items) = Held(items)

----------------------------------------------------------------------------
(* Properties of the goroutines *)

\* the map and the list hold the same keys, one element each
Matched(its, l) ==
    /\ Size(its) = Len(l)
    /\ DOMAIN its = LruKeys(l)
    /\ \A k \in DOMAIN its :
          /\ its[k].elem \in ElemIds(l)
          /\ l[IndexOf(l, its[k].elem)].Value = k

\* a value and an expiration that one Set of Stores wrote together
Paired(key, value, expiresAt) ==
    \E s \in Stores, t \in 1..MaxTime :
        /\ s.key = key /\ s.value = value
        /\ expiresAt = ExpiresAt(s.ttl, t)

\* what a call that is about to return has done is what the call does in
\* one step to the map and the list it found
Atomic(g) ==
    LET c == pc[g]
        set == SetMem(c.pre.items, c.pre.lru, maxSize, c.key, c.value, c.ttl,
                      c.pre.now)
        get == GetMem(c.pre.items, c.pre.lru, c.key, now)
        clean == CleanMem(c.pre.items, c.pre.lru, maxSize, now)
    IN  CASE c.op = "Set" -> items = set.items /\ lru = set.lru
          [] c.op = "Get" ->
                /\ items = get.items /\ lru = get.lru
                /\ c.found = get.found
                /\ c.found => c.value = get.value
          [] c.op = "cleanExpiredItems" ->
                items = clean.items /\ lru = clean.lru
          [] OTHER -> FALSE

\* C21: under every interleaving of the statements of two handlers that
\* Set and Get the same keys and of the cleaner, a goroutine is in a call
\* exactly when it holds c.mu, so one at most is; every call takes effect as
\* one step on the map and the list it locked (the clock not moving
\* meanwhile); whenever c.mu is free the map and the list match in size and
\* keys and every entry holds the value and the expiration of one Set; and
\* a Get hit returns a value that it judged by the expiration the same Set
\* wrote.
C21_ConcurrentAccess ==
    /\ \A g \in Goroutines : pc[g].at # "idle" <=> mu = g
    /\ \A g \in Goroutines :
          (pc[g].at = "unlock" /\ pc[g].pre.now = now /\ phase = "serving")
              => Atomic(g)
    /\ mu = "free" =>
          /\ Matched(items, lru)
          /\ \A k \in DOMAIN items :
                Paired(k, items[k].value, items[k].expiresAt)
    /\ \A g \in Handlers :
          (pc[g].at = "unlock" /\ pc[g].op = "Get" /\ pc[g].found)
              => Paired(pc[g].key, pc[g].value, pc[g].expiresAt)

\* a Set is between its two writes to an existing entry, which now holds
\* the new value with the old expiration, and between PushFront and the
\* insertion the list would be longer than the map
C21_Witness ==
    /\ mu = "h2"
    /\ pc["h2"].at = "Set:expiresAt"
    /\ ~Paired(pc["h2"].key, items[pc["h2"].key].value,
               items[pc["h2"].key].expiresAt)
    /\ Size(items) = 2

\* the <<key, value>> of the records of a file, in file order
Logged(file) == ReplayCalls(ScanLines(file))

\* the value of the last record of a key
LastFor(w, key) == w[LastRecord(w, key)][2]

\* where a Set is once it has written to the map or the list and until its
\* append block is done
Applied ==
    {"Set:expiresAt", "Set:move", "Set:insert", "Set:len", "Set:delete",
     "Set:remove", "Set:persist"}

\* between the mutation of a Set and its append no other goroutine changes
\* the map, the list or the file; and a record is written by a Set at its
\* append block, at the end of the file
InMemoryOrder ==
    /\ \A g \in Handlers :
          (pc[g].at \in Applied /\ pc'[g] = pc[g])
              => UNCHANGED <<items, lru, aof>>
    /\ aof' # aof =>
          \E g \in Handlers :
              /\ pc[g].at = "Set:persist" /\ pc'[g].at = "unlock"
              /\ Logged(aof')
                    = Append(Logged(aof), <<pc[g].key, pc[g].value>>)

\* the last record of every key of the cache that has one carries the value
\* the cache holds
LastRecordHeld(file, its) ==
    \A k \in DOMAIN its :
        k \in LoggedKeys(Logged(file)) => LastFor(Logged(file), k) = its[k].value

\* C22: for the Sets of two concurrent handlers the records are in the
\* order of the in-memory mutations, and whenever no Set is under way the
\* last record of every key carries the value the cache last stored for it.
C22_LogOrder ==
    [][/\ InMemoryOrder
       /\ mu' = "free" => LastRecordHeld(aof', items')]_vars

\* C22, amended: for the Sets of two concurrent handlers whose appends
\* succeed (keys and values being tokens) the records are in the order of
\* the in-memory mutations: a record is written while the map holds its
\* value for its key and its key is the front of the list; hence for every
\* key the last record carries the value of the last Set of that key whose
\* append succeeded.
C22_LogOrderOfWrittenSets ==
    [][/\ InMemoryOrder
       /\ aof' # aof =>
             /\ lru # <<>> /\ mu \in Handlers
             /\ lru[1].Value = pc[mu].key
             /\ pc[mu].key \in DOMAIN items
             /\ items[pc[mu].key].value = pc[mu].value
             /\ LastFor(Logged(aof'), pc[mu].key)
                   = items'[pc[mu].key].value]_vars

\* a handler has overwritten a key whose earlier record is in the file,
\* and its record is the last
C22_Witness ==
    /\ pc["h2"].at = "unlock"
    /\ pc["h2"].key = <<"a">> /\ pc["h2"].value = <<"2">>
    /\ Logged(aof) = << << <<"a">>, <<"1">> >>, << <<"b">>, <<"1">> >>,
                          << <<"a">>, <<"2">> >> >>
    /\ items[<<"a">>].value = <<"2">>

----------------------------------------------------------------------------
(* Properties of keys, expirations and frames *)

\* C31: every Set made by the handler or by the replay has a key that is
\* not empty, whatever line the client sent, and the cache never holds an
\* entry of the empty key.
C31_NonEmptyKey ==
    /\ <<>> \notin DOMAIN items
    /\ last.op = "Set" => last.key # <<>>

\* C35: the record of every SET answered OK is recognised by the replay and
\* applied with the key and the value the Set stored: a restart on the file
\* makes the calls it would have made before, and then that one.
C35_RoundTrip ==
    [][(last'.op = "Set" /\ last'.by = "conn" /\ last'.resp = RespOK
        /\ aof' # aof)
          => ReplayCalls(ScanLines(aof'))
               = Append(ReplayCalls(ScanLines(aof)),
                        <<last'.key, last'.value>>)]_vars

\* C32: a Set with ttl 0 stores an entry without expiration, which no later
\* Get and no later sweep of the cleaner removes or changes; a Set with
\* ttl > 0 at time t stores expiresAt = t + ttl; and the Set decides the
\* expiration whether or not the key was there, so a Set with ttl 0 over an
\* expiring entry leaves one that does not expire.
C32_TTL ==
    [][/\ last'.op = "Set" =>
            /\ last'.key \in DOMAIN items'
            /\ items'[last'.key].expiresAt
                  = IF last'.ttl = 0 THEN 0 ELSE now + last'.ttl
       /\ last'.op \in {"Get", "cleanExpiredItems"} =>
            \A k \in DOMAIN items :
                items[k].expiresAt = 0 =>
                    k \in DOMAIN items' /\ items'[k] = items[k]]_vars

\* at the last instant of the clock the cleaner has removed an expired
\* entry and kept one without expiration
C32_Witness ==
    /\ last.op = "cleanExpiredItems"
    /\ last.removed # {}
    /\ now = MaxTime
    /\ \E k \in DOMAIN items : items[k].expiresAt = 0

\* C36: with maxSize >= 1, when a Set has returned its key is in the map
\* with its value, at the front of the list, and is not among the keys the
\* Set removed.
C36_SetPostcondition ==
    (last.op = "Set" /\ maxSize >= 1) =>
        /\ last.key \in DOMAIN items
        /\ items[last.key].value = last.value
        /\ lru # <<>>
        /\ lru[1].Value = last.key
        /\ lru[1].id = items[last.key].elem
        /\ last.key \notin last.removed

\* a Set of a new key into a full cache of one entry has evicted the other
\* key
C36_Witness ==
    /\ last.op = "Set"
    /\ ~last.present
    /\ maxSize = 1
    /\ Cardinality(last.removed) = 1

\* the keys of a cache whose expiration time t has passed
ExpiredKeys(its, t) == {k \in DOMAIN its : Expired(its, k, t)}

\* C37: the entry that the Set of a new key removes from a full cache is
\* the back-most of the list, expired or not, and every other entry stays,
\* the expired ones too: an expired entry that is not the back-most outlives
\* the eviction and still counts toward maxSize.
C37_EvictionIgnoresExpiry ==
    [][(/\ last'.op = "Set"
        /\ last'.key \notin DOMAIN items
        /\ Size(items) >= maxSize)
       => /\ DOMAIN items \ DOMAIN items' = {lru[Len(lru)].Value}
          /\ ExpiredKeys(items', now)
                = ExpiredKeys(items, now) \ {lru[Len(lru)].Value}
          /\ Size(items') = maxSize]_vars

\* a Set has evicted an entry from a full cache of two, and the entry that
\* stayed behind the new key has expired
C37_Witness ==
    /\ last.op = "Set"
    /\ Cardinality(last.removed) = 1
    /\ maxSize = 2
    /\ Len(lru) = 2
    /\ Expired(items, lru[2].Value, now)

\* the elements of a list that hold a key of ks, in the order of the list
RECURSIVE Surviving(_, _)
Surviving(l, ks) ==
    IF l = <<>> THEN <<>>
    ELSE IF Head(l).Value \in ks THEN <<Head(l)>> \o Surviving(Tail(l), ks)
    ELSE Surviving(Tail(l), ks)

\* C38: a sweep of the cleaner over a cache of at most maxSize entries
\* removes no entry without expiration and no entry whose expiration has not
\* passed, leaves the value and the expiration of every entry it keeps as
\* they were, and keeps the entries it keeps in the order they had.
C38_CleanFrame ==
    [][(last'.op = "cleanExpiredItems" /\ Size(items) <= maxSize) =>
          /\ \A k \in DOMAIN items :
                ~Expired(items, k, now) => k \in DOMAIN items'
          /\ DOMAIN items' \subseteq DOMAIN items
          /\ \A k \in DOMAIN items' : items'[k] = items[k]
          /\ lru' = Surviving(lru, DOMAIN items')]_vars

\* a sweep of a full cache of two has removed the expired entry and kept
\* the other, whose expiration has not passed
C38_Witness ==
    /\ last.op = "cleanExpiredItems"
    /\ Cardinality(last.removed) = 1
    /\ maxSize = 2
    /\ Len(lru) = 1
    /\ items[lru[1].Value].expiresAt >= now

\* C39: a Get that misses returns ("", false) and leaves the file as it
\* was; when its key is not in the map it leaves the map and the list as
\* they were, and when its key is there, expired, it removes that entry and
\* its element and leaves every other entry and the order of the others as
\* they were.
C39_GetMissFrame ==
    [][(last'.op = "Get" /\ ~last'.found) =>
          /\ last'.ret = <<>>
          /\ aof' = aof
          /\ UNCHANGED <<maxSize, persist>>
          /\ IF last'.key \notin DOMAIN items
             THEN items' = items /\ lru' = lru
             ELSE /\ Expired(items, last'.key, now)
                  /\ DOMAIN items' = DOMAIN items \ {last'.key}
                  /\ \A k \in DOMAIN items' : items'[k] = items[k]
                  /\ lru' = Surviving(lru, DOMAIN items')]_vars

\* a GET on a connection has found its key expired and removed it, and the
\* other entry and the file are there
C39_Witness ==
    /\ last.op = "Get" /\ last.by = "conn"
    /\ last.present /\ ~last.found
    /\ last.removed = {last.key}
    /\ Size(items) = 1
    /\ aof # <<>>

\* the sweep of the cleaner over the entry of key k alone removes it
SweptAlone(k) ==
    CleanMem([j \in {k} |-> items[k]],
             <<[id |-> items[k].elem, Value |-> k]>>, maxSize, now).items
        = EmptyMap

\* C40: at the instant now = expiresAt a Get of the key is a hit that
\* returns the value, and a sweep of the cleaner keeps the entry; and at
\* every instant a Get of a key misses exactly when a sweep over that entry
\* removes it.
C40_StrictBoundary ==
    [][/\ (/\ last'.op = "Get"
           /\ last'.key \in DOMAIN items
           /\ items[last'.key].expiresAt = now)
          => /\ last'.found
             /\ last'.ret = items[last'.key].value
             /\ last'.key \in DOMAIN items'
       /\ last'.op = "cleanExpiredItems" =>
             \A k \in DOMAIN items :
                 items[k].expiresAt = now => k \in DOMAIN items'
       /\ \A k \in DOMAIN items :
             ~GetMem(items, lru, k, now).found <=> SweptAlone(k)]_vars

\* a Get has hit an entry at the instant of its expiration
C40_Witness ==
    /\ last.op = "Get"
    /\ last.found
    /\ items[last.key].expiresAt = now

\* C33: the replay calls Set for every record it applies with replaying
\* true and a ttl of one hour: it leaves the file as it found it, and every
\* entry it leaves in the cache expires one hour after the instant of the
\* replay, whenever its record was written.
C33_ReplayTTL ==
    [][last'.op = "replayAOF" =>
          /\ aof' = aof
          /\ \A k \in DOMAIN items' :
                /\ items'[k].expiresAt = now + Hour
                /\ \E i \in 1..Len(last'.calls) :
                      last'.calls[i] = <<k, items'[k].value>>]_vars

\* the replay has run after the first instant of the clock and has left
\* two entries, which expire an hour after it
C33_Witness ==
    /\ last.op = "replayAOF"
    /\ now > 1
    /\ Size(items) = 2
    /\ \A k \in DOMAIN items : items[k].expiresAt = now + Hour
    /\ NumLines(aof) = 2

\* the statements of Set, Get and cleanExpiredItems between Lock and the
\* deferred Unlock
Locked ==
    {"Set:exists", "Set:value", "Set:expiresAt", "Set:move", "Set:push",
     "Set:insert", "Set:len", "Set:delete", "Set:remove", "Set:persist",
     "Get:exists", "Get:expired", "Get:remove", "Get:delete", "Get:move",
     "Get:return", "clean:loop", "clean:remove", "clean:delete", "unlock"}

\* C34: a goroutine is at a statement of Set, of Get or of
\* cleanExpiredItems, the append block of Set included, exactly when it
\* holds the one mutex c.mu; a handler that has a response to write does not
\* hold it; the log file changes only at the append of a Set whose
\* goroutine holds c.mu; and a goroutine that holds c.mu releases it,
\* whatever path its call takes, so that c.mu is free again after every call
\* and no goroutine is kept waiting by a call that does not end.
C34_LockDiscipline ==
    /\ [][aof' # aof =>
             \E g \in Handlers : pc[g].at = "Set:persist" /\ mu = g]_vars
    /\ [](\A g \in Goroutines :
            /\ pc[g].at \in Locked <=> mu = g
            /\ pc[g].at \in Locked \cup {"idle", "write"}
            /\ pc[g].at = "write" => mu # g)
    /\ \A g \in Goroutines : (mu = g) ~> (mu = "free")

\* one handler writes the value its GET found while the other is inside a
\* Set, holding c.mu
C34_Witness ==
    /\ pc["h1"].at = "write" /\ pc["h1"].op = "Get" /\ pc["h1"].found
    /\ mu = "h2" /\ pc["h2"].at = "Set:persist"

============================================================================
